---------------------------- MODULE Spec2Model ----------------------------
(***************************************************************************)
(* A model of agent-en-place's tool resolution: the version sources, the   *)
(* collector (collectToolSpecs), the dependency walk (ResolveToolDeps),    *)
(* the image tag (buildImageName) and the agent manifest                   *)
(* (buildAgentMiseConfig).                                                 *)
(*                                                                         *)
(* Strings of the program are sequences of one-character strings, so that  *)
(* the normalisation, the quoting and the sorting are computed character   *)
(* by character as the code computes them.                                 *)
(***************************************************************************)
EXTENDS Naturals, Sequences, FiniteSets, TLC

\* ------------------------------------------------------------------ bounds

\* The longest environment override list (AGENT_EN_PLACE_TOOLS tokens).
MaxEnvTools == 1

\* ----------------------------------------------------------------- strings

LowerLetters ==
  <<"a","b","c","d","e","f","g","h","i","j","k","l","m",
    "n","o","p","q","r","s","t","u","v","w","x","y","z">>

UpperLetters ==
  <<"A","B","C","D","E","F","G","H","I","J","K","L","M",
    "N","O","P","Q","R","S","T","U","V","W","X","Y","Z">>

Digits == <<"0","1","2","3","4","5","6","7","8","9">>

\* The characters of the model in byte order, as sort.Strings compares them.
ByteOrder ==
  <<" ", "!", "#", "*", "+", "-", ".", "/">> \o Digits \o <<":", "@">>
    \o UpperLetters \o <<"_">> \o LowerLetters

Range(s) == { s[i] : i \in DOMAIN s }

IsLower(c) == c \in Range(LowerLetters)

IsDigit(c) == c \in Range(Digits)

\* strings.ToLower, one character.
ToLowerChar(c) ==
  IF \E i \in DOMAIN UpperLetters : UpperLetters[i] = c
    THEN LowerLetters[CHOOSE i \in DOMAIN UpperLetters : UpperLetters[i] = c]
    ELSE c

ToLower(s) == [i \in DOMAIN s |-> ToLowerChar(s[i])]

RECURSIVE TrimLeft(_, _)
TrimLeft(s, cut) ==
  IF s # <<>> /\ Head(s) \in cut THEN TrimLeft(Tail(s), cut) ELSE s

RECURSIVE TrimRight(_, _)
TrimRight(s, cut) ==
  IF s # <<>> /\ s[Len(s)] \in cut
    THEN TrimRight(SubSeq(s, 1, Len(s) - 1), cut)
    ELSE s

\* strings.Trim(s, cutset)
Trim(s, cut) == TrimRight(TrimLeft(s, cut), cut)

\* The white space of ASCII text.
WhiteSpace == {" ", "\t", "\n", "\r", "\f"}

\* strings.TrimSpace
TrimSpace(s) == Trim(s, WhiteSpace)

\* The characters sanitizeTagComponent turns into a hyphen.
HyphenChars == {"+", "@", ":", "/", "_", "-"}

\* The loop of sanitizeTagComponent without the lastHyphen flag: every
\* separator writes a hyphen.
RECURSIVE SanitizeLoopNoCollapse(_, _, _)
SanitizeLoopNoCollapse(value, b, lastHyphen) ==
  IF value = <<>> THEN b
  ELSE LET r == Head(value) IN
    IF IsLower(r) \/ IsDigit(r) \/ r = "."
      THEN SanitizeLoopNoCollapse(Tail(value), Append(b, r), FALSE)
    ELSE IF r \in HyphenChars
      THEN SanitizeLoopNoCollapse(Tail(value), Append(b, "-"), TRUE)
    ELSE SanitizeLoopNoCollapse(Tail(value), b, lastHyphen)

\* The loop of sanitizeTagComponent: builder b, flag lastHyphen.
RECURSIVE SanitizeLoop(_, _, _)
SanitizeLoop(value, b, lastHyphen) ==
  IF value = <<>> THEN b
  ELSE LET r == Head(value) IN
    IF IsLower(r) \/ IsDigit(r) THEN SanitizeLoop(Tail(value), Append(b, r), FALSE)
    ELSE IF r = "." THEN SanitizeLoop(Tail(value), Append(b, "."), FALSE)
    ELSE IF r \in HyphenChars
      THEN IF ~lastHyphen
             THEN SanitizeLoop(Tail(value), Append(b, "-"), TRUE)
             ELSE SanitizeLoop(Tail(value), b, lastHyphen)
    ELSE SanitizeLoop(Tail(value), b, lastHyphen)

\* sanitizeTagComponent without the final strings.Trim.
sanitizeTagComponentNoTrim(value) ==
  SanitizeLoop(ToLower(TrimSpace(value)), <<>>, FALSE)

sanitizeTagComponent(value) ==
  Trim(SanitizeLoop(ToLower(TrimSpace(value)), <<>>, FALSE), {"-"})

\* Byte-wise lexicographic order of two strings (sort.Strings).
Ord(c) == CHOOSE i \in DOMAIN ByteOrder : ByteOrder[i] = c

RECURSIVE StrLess(_, _)
StrLess(a, b) ==
  IF b = <<>> THEN FALSE
  ELSE IF a = <<>> THEN TRUE
  ELSE IF Head(a) = Head(b) THEN StrLess(Tail(a), Tail(b))
  ELSE Ord(Head(a)) < Ord(Head(b))

\* The index of the last occurrence of c in s, 0 when absent (strings.LastIndex).
RECURSIVE LastIndexOf(_, _)
LastIndexOf(s, c) ==
  IF s = <<>> THEN 0
  ELSE IF s[Len(s)] = c THEN Len(s)
  ELSE LastIndexOf(SubSeq(s, 1, Len(s) - 1), c)

\* The index of the first occurrence of c in s, 0 when absent (strings.Index).
IndexOf(s, c) ==
  IF \E i \in DOMAIN s : s[i] = c
    THEN CHOOSE i \in DOMAIN s : s[i] = c /\ \A j \in 1..(i - 1) : s[j] # c
    ELSE 0

\* getLabelName: the part after the last "/", else after the first ":".
getLabelName(toolName) ==
  IF LastIndexOf(toolName, "/") > 0
    THEN SubSeq(toolName, LastIndexOf(toolName, "/") + 1, Len(toolName))
  ELSE IF IndexOf(toolName, ":") > 0
    THEN SubSeq(toolName, IndexOf(toolName, ":") + 1, Len(toolName))
  ELSE toolName


\* ---------------------------------------------------------- names, versions

S_latest == <<"l","a","t","e","s","t">>

S_tool == <<"t","o","o","l">>

S_node == <<"n","o","d","e">>

S_python == <<"p","y","t","h","o","n">>

S_ruby == <<"r","u","b","y">>

S_go == <<"g","o">>

S_libatomic1 == <<"l","i","b","a","t","o","m","i","c","1">>

\* The packageName of each agent of the default configuration.
S_pkgCodex == <<"n","p","m",":","@","o","p","e","n","a","i","/","c","o","d","e","x">>

S_pkgOpencode == <<"n","p","m",":","o","p","e","n","c","o","d","e","-","a","i">>

S_pkgCopilot ==
  <<"n","p","m",":","@","g","i","t","h","u","b","/","c","o","p","i","l","o","t">>

S_pkgClaude ==
  <<"n","p","m",":","@","a","n","t","h","r","o","p","i","c","-","a","i","/",
    "c","l","a","u","d","e","-","c","o","d","e">>

S_pkgGemini ==
  <<"n","p","m",":","@","g","o","o","g","l","e","/","g","e","m","i","n","i","-","c","l","i">>

\* ------------------------------------------------------------ configuration

\* The zero value of ToolConfigEntry (what c.Tools[name] yields for a missing key).
ZeroTool == [Version |-> <<>>, Depends |-> <<>>, AdditionalPackages |-> <<>>]

\* The agents of the embedded default configuration (packageName, depends).
DefaultAgents ==
  [a \in {"codex", "opencode", "copilot", "claude", "gemini"} |->
    [PackageName |-> CASE a = "codex" -> S_pkgCodex
                       [] a = "opencode" -> S_pkgOpencode
                       [] a = "copilot" -> S_pkgCopilot
                       [] a = "claude" -> S_pkgClaude
                       [] a = "gemini" -> S_pkgGemini,
     Depends |-> <<S_node>>]]

\* The tools of the embedded default configuration.
DefaultTools ==
  (S_node :> [Version |-> S_latest, Depends |-> S_python,
              AdditionalPackages |-> <<S_libatomic1>>])
  @@ (S_python :> [Version |-> S_latest, Depends |-> <<>>,
                   AdditionalPackages |-> <<>>])

\* The embedded default configuration (tools and agents).
DefaultConfig == [Tools |-> DefaultTools, Agents |-> DefaultAgents]

\* c.Tools[toolName]: the entry, or the zero value for a missing key.
ToolEntry(c, toolName) ==
  IF toolName \in DOMAIN c.Tools THEN c.Tools[toolName] ELSE ZeroTool

\* AgentConfig.ToToolSpec: the package is both the mise tool name and the key.
ToToolSpec(a) == [MiseToolName |-> a.PackageName, ConfigKey |-> a.PackageName]

\* ---------------------------------------------------------- ResolveToolDeps

\* ResolveLoopBody without the userTools gate: every depends edge is followed.
ResolveLoopBodyAll(c, userToolSet, st) ==
  LET toolName == Head(st.queue)
      tool == ToolEntry(c, toolName)
      rest == Tail(st.queue)
  IN IF toolName \in st.seen THEN [st EXCEPT !.queue = rest]
     ELSE [queue |-> IF tool.Depends # <<>> THEN Append(rest, tool.Depends) ELSE rest,
           seen |-> st.seen \cup {toolName},
           result |-> Append(st.result,
                        [name |-> toolName,
                         version |-> IF tool.Version = <<>> THEN S_latest ELSE tool.Version,
                         labelName |-> <<>>,
                         source |-> "config"])]

\* The loop body of ResolveToolDeps that leaves a tool it has seen at the head
\* of the queue.
ResolveLoopBodyNoPop(c, userToolSet, st) ==
  LET toolName == Head(st.queue)
      tool == ToolEntry(c, toolName)
  IN IF toolName \in st.seen THEN st
     ELSE [queue |-> IF tool.Depends # <<>> /\ toolName \in userToolSet
                       THEN Append(Tail(st.queue), tool.Depends)
                       ELSE Tail(st.queue),
           seen |-> st.seen \cup {toolName},
           result |-> Append(st.result,
                        [name |-> toolName,
                         version |-> IF tool.Version = <<>> THEN S_latest ELSE tool.Version,
                         labelName |-> <<>>,
                         source |-> "config"])]

\* One iteration of the loop of ResolveToolDeps on (queue, seen, result):
\* pop the head; skip it when seen; else record it and, when it has a depends
\* edge and is a user tool, push the edge's target.
ResolveLoopBody(c, userToolSet, st) ==
  LET toolName == Head(st.queue)
      tool == ToolEntry(c, toolName)
      rest == Tail(st.queue)
  IN IF toolName \in st.seen THEN [st EXCEPT !.queue = rest]
     ELSE [queue |-> IF tool.Depends # <<>> /\ toolName \in userToolSet
                       THEN Append(rest, tool.Depends)
                       ELSE rest,
           seen |-> st.seen \cup {toolName},
           result |-> Append(st.result,
                        [name |-> toolName,
                         version |-> IF tool.Version = <<>> THEN S_latest ELSE tool.Version,
                         labelName |-> <<>>,
                         source |-> "config"])]

RECURSIVE ResolveRun(_, _, _)
ResolveRun(c, userToolSet, st) ==
  IF st.queue = <<>> THEN st.result
  ELSE ResolveRun(c, userToolSet, ResolveLoopBody(c, userToolSet, st))

\* ImageConfig.ResolveToolDeps(agentName, userTools): nil for an unknown agent.
ResolveToolDeps(c, agent, userToolSet) ==
  IF agent \notin DOMAIN c.Agents THEN <<>>
  ELSE ResolveRun(c, userToolSet,
         [queue |-> c.Agents[agent].Depends, seen |-> {}, result |-> <<>>])


\* ----------------------------------------------------------- version sources

Nil == "nil"

\* All orders in which a map with key set S can be iterated.
Perms(S) ==
  { p \in [1..Cardinality(S) -> S] : \A i, j \in DOMAIN p : p[i] = p[j] => i = j }

RECURSIVE Concat(_)
Concat(seqs) == IF seqs = <<>> THEN <<>> ELSE Head(seqs) \o Concat(Tail(seqs))

Descriptor(n, v, src) == [name |-> n, version |-> v, labelName |-> <<>>, source |-> src]

\* splitToolVersion taking every "@" after the first character as the
\* delimiter, an npm scope included.
splitToolVersionAnyAt(tok) ==
  LET idx == LastIndexOf(tok, "@") IN
    IF idx <= 1 THEN <<tok, S_latest>>
    ELSE <<SubSeq(tok, 1, idx - 1),
           IF idx = Len(tok) THEN S_latest ELSE SubSeq(tok, idx + 1, Len(tok))>>

\* splitToolVersion: the last "@" delimits the version unless it starts the
\* token or an npm scope; an empty or missing version is "latest".
splitToolVersion(token) ==
  LET idx == LastIndexOf(token, "@") IN
    IF idx <= 1 THEN <<token, S_latest>>
    ELSE IF token[idx - 1] = ":" THEN <<token, S_latest>>
    ELSE <<SubSeq(token, 1, idx - 1),
           IF idx = Len(token) THEN S_latest ELSE SubSeq(token, idx + 1, Len(token))>>

\* parseEnvTools on the comma-separated tokens of AGENT_EN_PLACE_TOOLS: each is
\* trimmed, empty ones are skipped, the rest are split into name and version.
RECURSIVE parseEnvTools(_)
parseEnvTools(tokens) ==
  IF tokens = <<>> THEN <<>>
  ELSE LET t == TrimSpace(Head(tokens)) IN
    IF t = <<>> THEN parseEnvTools(Tail(tokens))
    ELSE <<Descriptor(splitToolVersion(t)[1], splitToolVersion(t)[2], "env")>>
           \o parseEnvTools(Tail(tokens))

\* parseToolVersions: a file is a sequence of lines, a line the sequence of its
\* whitespace-separated fields. Blank lines and "#" lines are skipped; the
\* second field is the version, "latest" when absent.
RECURSIVE ParseLines(_)
ParseLines(lines) ==
  IF lines = <<>> THEN <<>>
  ELSE LET fields == Head(lines) IN
    IF fields = <<>> \/ Head(fields[1]) = "#" THEN ParseLines(Tail(lines))
    ELSE <<Descriptor(fields[1], IF Len(fields) > 1 THEN fields[2] ELSE S_latest, "user")>>
           \o ParseLines(Tail(lines))

parseToolVersions(file) == IF ~file.present THEN <<>> ELSE ParseLines(file.lines)

\* parseMiseToml: a file that does not parse yields nothing; else the string
\* valued entries of its tools table, in the iteration order `order` of the map.
RECURSIVE MiseEntries(_, _)
MiseEntries(tools, order) ==
  IF order = <<>> THEN <<>>
  ELSE LET k == Head(order) IN
    (IF tools[k].isString THEN <<Descriptor(k, tools[k].v, "user")>> ELSE <<>>)
      \o MiseEntries(tools, Tail(order))

parseMiseToml(file, order) ==
  IF ~file.present THEN <<>>
  ELSE IF ~file.ok THEN <<>>
  ELSE MiseEntries(file.tools, order)

S_crystal == <<"c","r","y","s","t","a","l">>

S_elixir == <<"e","l","i","x","i","r">>

S_java == <<"j","a","v","a">>

S_yarn == <<"y","a","r","n">>

S_bun == <<"b","u","n">>

\* The candidate version files of each language, in fallback order.
idiomaticToolFiles ==
  (S_crystal :> <<".crystal-version">>)
  @@ (S_elixir :> <<".exenv-version">>)
  @@ (S_go :> <<".go-version">>)
  @@ (S_java :> <<".java-version", ".sdkmanrc">>)
  @@ (S_node :> <<".nvmrc", ".node-version">>)
  @@ (S_python :> <<".python-version", ".python-versions">>)
  @@ (S_ruby :> <<".ruby-version", "Gemfile">>)
  @@ (S_yarn :> <<".yvmrc">>)
  @@ (S_bun :> <<".bun-version">>)

\* readIdiomaticVersion: the version a file on disk yields, empty when the file
\* is missing, empty or without its directive.
readIdiomaticVersion(disk, path) == IF path \in DOMAIN disk THEN disk[path] ELSE <<>>

\* The inner loop of parseIdiomaticFiles: the first candidate that yields a version.
RECURSIVE FirstCandidate(_, _, _)
FirstCandidate(disk, tool, paths) ==
  IF paths = <<>> THEN <<>>
  ELSE IF readIdiomaticVersion(disk, Head(paths)) # <<>>
    THEN <<[tool |-> tool, version |-> readIdiomaticVersion(disk, Head(paths)),
            path |-> Head(paths), configKey |-> tool]>>
  ELSE FirstCandidate(disk, tool, Tail(paths))

\* The languages for which some candidate file yields a version.
FoundTools(disk) ==
  { t \in DOMAIN idiomaticToolFiles : FirstCandidate(disk, t, idiomaticToolFiles[t]) # <<>> }

\* parseIdiomaticFiles: one info per language with a version file, in the order
\* `order` in which the iteration of the table meets those languages.
RECURSIVE parseIdiomaticFiles(_, _)
parseIdiomaticFiles(disk, order) ==
  IF order = <<>> THEN <<>>
  ELSE FirstCandidate(disk, Head(order), idiomaticToolFiles[Head(order)])
         \o parseIdiomaticFiles(disk, Tail(order))

\* ------------------------------------------------------------- the collector

RECURSIVE DedupeLoopLast(_, _, _)
\* dedupeToolSpecs keeping the last occurrence of a name instead of the first.
DedupeLoopLast(specs, seen, result) ==
  IF specs = <<>> THEN result
  ELSE LET spec == Head(specs)
           key == sanitizeTagComponent(spec.name)
           entry == [name |-> key,
                     version |-> IF spec.version = <<>> THEN S_latest ELSE spec.version,
                     labelName |-> IF spec.labelName = <<>> THEN getLabelName(spec.name)
                                   ELSE spec.labelName,
                     source |-> spec.source]
  IN IF key = <<>> THEN DedupeLoopLast(Tail(specs), seen, result)
     ELSE IF key \in seen
       THEN DedupeLoopLast(Tail(specs), seen,
              [i \in DOMAIN result |-> IF result[i].name = key THEN entry ELSE result[i]])
     ELSE DedupeLoopLast(Tail(specs), seen \cup {key}, Append(result, entry))

RECURSIVE DedupeLoop(_, _, _)
\* The loop of dedupeToolSpecs with the seen set keyed by the names as written.
RECURSIVE DedupeLoopRawKey(_, _, _)
DedupeLoopRawKey(specs, seen, result) ==
  IF specs = <<>> THEN result
  ELSE LET spec == Head(specs)
           key == sanitizeTagComponent(spec.name)
  IN IF key = <<>> \/ spec.name \in seen THEN DedupeLoopRawKey(Tail(specs), seen, result)
     ELSE DedupeLoopRawKey(Tail(specs), seen \cup {spec.name},
            Append(result,
              [name |-> key,
               version |-> IF spec.version = <<>> THEN S_latest ELSE spec.version,
               labelName |-> IF spec.labelName = <<>> THEN getLabelName(spec.name)
                             ELSE spec.labelName,
               source |-> spec.source]))

\* The loop of dedupeToolSpecs: the first descriptor of each normalised name is
\* kept under that name, with its version ("latest" when empty) and its source.
DedupeLoop(specs, seen, result) ==
  IF specs = <<>> THEN result
  ELSE LET spec == Head(specs)
           key == sanitizeTagComponent(spec.name)
  IN IF key = <<>> \/ key \in seen THEN DedupeLoop(Tail(specs), seen, result)
     ELSE DedupeLoop(Tail(specs), seen \cup {key},
            Append(result,
              [name |-> key,
               version |-> IF spec.version = <<>> THEN S_latest ELSE spec.version,
               labelName |-> IF spec.labelName = <<>> THEN getLabelName(spec.name)
                             ELSE spec.labelName,
               source |-> spec.source]))

dedupeToolSpecs(specs) == DedupeLoop(specs, {}, <<>>)

\* ensureDefaultTool that appends the agent's package without looking for it.
ensureDefaultToolAlways(specs, toolSpec) ==
  Append(specs, [name |-> toolSpec.MiseToolName, version |-> S_latest,
                 labelName |-> getLabelName(toolSpec.MiseToolName), source |-> "config"])

\* ensureDefaultTool that never appends the agent's package.
ensureDefaultToolNever(specs, toolSpec) == specs

\* ensureDefaultTool: the list as it is when a descriptor is named by the
\* normalised package name, else the package appended at version "latest".
ensureDefaultTool(specs, toolSpec) ==
  IF \E i \in DOMAIN specs : specs[i].name = sanitizeTagComponent(toolSpec.MiseToolName)
    THEN specs
    ELSE Append(specs, [name |-> toolSpec.MiseToolName, version |-> S_latest,
                        labelName |-> getLabelName(toolSpec.MiseToolName),
                        source |-> "config"])

\* ensureToolInfo: an info for the agent's package unless one has its config key.
ensureToolInfo(infos, toolSpec) ==
  IF \E i \in DOMAIN infos : infos[i].configKey = toolSpec.ConfigKey
    THEN infos
    ELSE Append(infos, [tool |-> toolSpec.MiseToolName, version |-> S_latest,
                        path |-> "", configKey |-> toolSpec.ConfigKey])

\* uniquePaths: the non-empty paths of the infos, first occurrences, in order.
RECURSIVE UniquePathsLoop(_, _, _)
UniquePathsLoop(infos, seen, result) ==
  IF infos = <<>> THEN result
  ELSE LET path == Head(infos).path IN
    IF path = "" \/ path \in seen THEN UniquePathsLoop(Tail(infos), seen, result)
    ELSE UniquePathsLoop(Tail(infos), seen \cup {path}, Append(result, path))

uniquePaths(infos) == UniquePathsLoop(infos, {}, <<>>)

\* The descriptors and infos a tool list contributes.
IdiomaticSpecs(idiomatic) ==
  [i \in DOMAIN idiomatic |-> Descriptor(idiomatic[i].tool, idiomatic[i].version, "")]

InfosOf(tools) ==
  [i \in DOMAIN tools |->
    [tool |-> tools[i].name, version |-> tools[i].version, path |-> "",
     configKey |-> tools[i].name]]

\* Whether specified-tools-only mode is in effect, taking the flag as it is set.
SpecifiedOnlyByFlag(flag, envSpecs) == flag

\* Whether specified-tools-only mode is in effect: the flag is set and the
\* override list is not empty (a flag without a list only warns).
SpecifiedOnly(flag, envSpecs) == flag /\ envSpecs # <<>>

\* The names the user supplied: the override list, .tool-versions and mise.toml.
UserToolsOf(specs) ==
  { specs[i].name : i \in { j \in DOMAIN specs : specs[j].source \in {"user", "env"} } }

\* collectToolSpecs. The sources are collected in precedence order (override
\* list, .tool-versions, mise.toml, idiomatic files, config dependencies of the
\* agent), deduplicated, and the agent's package is added. In specified-tools-
\* only mode only the override list is collected. miseOrder and idiomaticOrder
\* are the orders in which the two maps happen to be iterated.
collectToolSpecs(toolFile, miseFile, spec, imgCfg, agent, env, flag, disk, miseOrder, idiomaticOrder) ==
  LET envSpecs == parseEnvTools(env)
      only == SpecifiedOnly(flag, envSpecs)
      idiomatic == IF only THEN <<>> ELSE parseIdiomaticFiles(disk, idiomaticOrder)
      userSpecs == IF only THEN envSpecs
                   ELSE envSpecs \o parseToolVersions(toolFile)
                          \o parseMiseToml(miseFile, miseOrder)
      userToolSet == UserToolsOf(userSpecs)
      configTools == IF only THEN <<>> ELSE ResolveToolDeps(imgCfg, agent, userToolSet)
      specs == userSpecs \o IdiomaticSpecs(idiomatic) \o configTools
      infos == idiomatic \o InfosOf(configTools) \o InfosOf(envSpecs)
  IN [specs |-> ensureDefaultTool(dedupeToolSpecs(specs), spec),
      idiomaticPaths |-> uniquePaths(idiomatic),
      idiomaticInfos |-> ensureToolInfo(infos, spec),
      userTools |-> userToolSet]


\* --------------------------------------------------------------- renderers

imageRepository ==
  <<"m","h","e","a","p","/","a","g","e","n","t","-","e","n","-","p","l","a","c","e">>

\* strings.Join
RECURSIVE Join(_, _)
Join(parts, sep) ==
  IF parts = <<>> THEN <<>>
  ELSE IF Len(parts) = 1 THEN parts[1]
  ELSE parts[1] \o sep \o Join(Tail(parts), sep)

\* The tag part of one descriptor, without the fallbacks for an empty
\* normalised name or version.
TagPartPlain(spec) ==
  sanitizeTagComponent(spec.name) \o <<"-">> \o sanitizeTagComponent(spec.version)

\* The tag part of one descriptor in buildImageName: name-version, both
\* normalised, "tool" for an empty name and "latest" for an empty version.
TagPart(spec) ==
  LET name == sanitizeTagComponent(spec.name)
      version == sanitizeTagComponent(spec.version)
  IN (IF name = <<>> THEN S_tool ELSE name) \o <<"-">>
       \o (IF version = <<>> THEN S_latest ELSE version)

\* buildImageName
buildImageName(specs) ==
  IF Len(specs) = 0 THEN imageRepository \o <<":">> \o S_latest
  ELSE imageRepository \o <<":">> \o Join([i \in DOMAIN specs |-> TagPart(specs[i])], <<"-">>)

\* buildToolLabels: one (label name, version) per descriptor with a name.
RECURSIVE buildToolLabels(_)
buildToolLabels(specs) ==
  IF specs = <<>> THEN <<>>
  ELSE LET spec == Head(specs)
           name == IF spec.labelName = <<>> THEN sanitizeTagComponent(spec.name)
                   ELSE spec.labelName
           version == sanitizeTagComponent(spec.version)
  IN (IF name = <<>> THEN <<>>
      ELSE <<<<name, IF version = <<>> THEN S_latest ELSE version>>>>)
       \o buildToolLabels(Tail(specs))

\* The keys of the tools table of the user's mise.toml, whatever their values.
UserMiseKeys(userMise) ==
  IF userMise.present /\ userMise.ok THEN DOMAIN userMise.tools ELSE {}

\* The loop of buildAgentMiseConfig over the infos, without the filter on the
\* user's keys.
RECURSIVE AgentToolsLoopUnfiltered(_, _, _)
AgentToolsLoopUnfiltered(infos, userKeys, agentTools) ==
  IF infos = <<>> THEN agentTools
  ELSE LET info == Head(infos)
           version == TrimSpace(info.version)
           key == IF info.configKey = <<>> THEN info.tool ELSE info.configKey
  IN IF version = <<>> THEN AgentToolsLoopUnfiltered(Tail(infos), userKeys, agentTools)
     ELSE AgentToolsLoopUnfiltered(Tail(infos), userKeys,
            (key :> version) @@ agentTools)

\* The loop of buildAgentMiseConfig over the infos: each info with a version
\* sets its key in the map unless the user's table has the key.
RECURSIVE AgentToolsLoop(_, _, _)
AgentToolsLoop(infos, userKeys, agentTools) ==
  IF infos = <<>> THEN agentTools
  ELSE LET info == Head(infos)
           version == TrimSpace(info.version)
           key == IF info.configKey = <<>> THEN info.tool ELSE info.configKey
  IN IF version = <<>> \/ key \in userKeys
       THEN AgentToolsLoop(Tail(infos), userKeys, agentTools)
       ELSE AgentToolsLoop(Tail(infos), userKeys, (key :> version) @@ agentTools)

\* The tools map of buildAgentMiseConfig: the infos, then the agent's package
\* at "latest" unless the user's table has it.
AgentTools(userMise, coll, spec) ==
  LET userKeys == UserMiseKeys(userMise)
      fromInfos == AgentToolsLoop(coll.idiomaticInfos, userKeys, <<>>)
  IN IF spec.ConfigKey \in userKeys THEN fromInfos
     ELSE (spec.ConfigKey :> S_latest) @@ fromInfos

\* The keys of a map in sort.Strings order.
SortedKeys(m) ==
  CHOOSE p \in Perms(DOMAIN m) : \A i, j \in DOMAIN p : i < j => StrLess(p[i], p[j])

\* %q of a string without quotes or backslashes.
Quote(str) == <<"\"">> \o str \o <<"\"">>

\* marshalAgentMiseConfig: "[tools]" and one "key = "version"" line per key in
\* sorted order, the key quoted when it contains ":", "@" or "/".
marshalAgentMiseConfig(tools) ==
  IF DOMAIN tools = {} THEN <<>>
  ELSE LET names == SortedKeys(tools)
           line(name) ==
             (IF \E i \in DOMAIN name : name[i] \in {":", "@", "/"}
                THEN Quote(name) ELSE name)
               \o <<" ", "=", " ">> \o Quote(tools[name]) \o <<"\n">>
       IN <<"[", "t", "o", "o", "l", "s", "]", "\n">>
            \o Concat([i \in DOMAIN names |-> line(names[i])])

\* buildAgentMiseConfig falling back to no user keys when the user's mise.toml
\* does not parse, as parseMiseToml does.
buildAgentMiseConfigLenient(userMise, coll, spec) ==
  [err |-> FALSE, tools |-> AgentTools(userMise, coll, spec),
   data |-> marshalAgentMiseConfig(AgentTools(userMise, coll, spec))]

\* buildAgentMiseConfig: an error and no bytes when the user's mise.toml does
\* not parse, else the marshalled tools map (kept beside the text as `tools`).
buildAgentMiseConfig(userMise, coll, spec) ==
  IF userMise.present /\ ~userMise.ok
    THEN [err |-> TRUE, tools |-> <<>>, data |-> <<>>]
    ELSE [err |-> FALSE, tools |-> AgentTools(userMise, coll, spec),
          data |-> marshalAgentMiseConfig(AgentTools(userMise, coll, spec))]


\* makeBuildContext leaving the user's mise.toml out of the archive.
makeBuildContextWithoutUserMise(toolFile, miseFile, coll, spec) ==
  IF buildAgentMiseConfig(miseFile, coll, spec).err
    THEN [err |-> TRUE, files |-> <<>>]
    ELSE [err |-> FALSE,
          files |-> <<"Dockerfile">>
                      \o (IF toolFile.present THEN <<".tool-versions">> ELSE <<>>)
                      \o <<"mise.agent.toml">>
                      \o coll.idiomaticPaths
                      \o <<"assets/agent-entrypoint.sh">>]

\* makeBuildContext after the recipe is rendered: nothing when
\* buildAgentMiseConfig fails, else the names of the files of the archive.
makeBuildContext(toolFile, miseFile, coll, spec) ==
  IF buildAgentMiseConfig(miseFile, coll, spec).err
    THEN [err |-> TRUE, files |-> <<>>]
    ELSE [err |-> FALSE,
          files |-> <<"Dockerfile">>
                      \o (IF toolFile.present THEN <<".tool-versions">> ELSE <<>>)
                      \o (IF miseFile.present THEN <<"mise.toml">> ELSE <<>>)
                      \o <<"mise.agent.toml">>
                      \o coll.idiomaticPaths
                      \o <<"assets/agent-entrypoint.sh">>]

\* ------------------------------------------------------------------ inputs

S_Node == <<"N","o","d","e">>

S_v15 == <<"1","5">>

S_v16 == <<"1","6">>

S_v18 == <<"1","8">>

S_v20 == <<"2","0">>

S_v21 == <<"2","1">>

S_v22 == <<"2","2">>

S_v39 == <<"3",".","9">>

S_star == <<"*">>

SeqsUpTo(S, n) == UNION { [1..k -> S] : k \in 0..n }

\* Tokens of AGENT_EN_PLACE_TOOLS: a pinned tool, a tool without version, the
\* package of the claude agent pinned.
EnvTokens ==
  { S_node \o <<"@">> \o S_v20, S_python, S_pkgClaude \o <<"@", "1">> }

EnvLists == SeqsUpTo(EnvTokens, MaxEnvTools)

\* .tool-versions files: none, a pinned tool under a comment, a name in
\* another case without version, a version that normalises to nothing, the
\* same tool named twice.
ToolFiles ==
  { [present |-> FALSE, lines |-> <<>>],
    [present |-> TRUE, lines |-> << <<<<"#">>, S_node>>, <<S_node, S_v18>> >>],
    [present |-> TRUE, lines |-> << <<S_Node>> >>],
    [present |-> TRUE, lines |-> << <<S_ruby, S_star>> >>],
    [present |-> TRUE, lines |-> << <<S_node, S_v18>>, <<S_Node, S_v15>> >>] }

MiseString(v) == [isString |-> TRUE, v |-> v]

MiseTable == [isString |-> FALSE, v |-> <<>>]

\* toolFile, miseFile: a file that is not there has present = FALSE.
\* mise.toml files: absent, malformed, and tools tables with one key, two
\* keys, two keys of the same normalised name, the claude package beside a
\* key whose value is not a string.
MiseFiles ==
  { [present |-> FALSE, ok |-> TRUE, tools |-> <<>>],
    [present |-> TRUE, ok |-> FALSE, tools |-> <<>>],
    [present |-> TRUE, ok |-> TRUE, tools |-> (S_node :> MiseString(S_v16))],
    [present |-> TRUE, ok |-> TRUE, tools |-> (S_node :> MiseString(S_v16)) @@ (S_python :> MiseString(S_v39))],
    [present |-> TRUE, ok |-> TRUE, tools |-> (S_node :> MiseString(S_v16)) @@ (S_Node :> MiseString(S_v15))],
    [present |-> TRUE, ok |-> TRUE, tools |-> (S_pkgClaude :> MiseString(<<"2">>)) @@ (S_python :> MiseTable)] }

\* Version files on disk: none, one for node, a fallback for node beside one
\* for python.
Disks ==
  { <<>>,
    (".nvmrc" :> S_v21),
    (".node-version" :> S_v22) @@ (".python-version" :> S_v39) }

\* ------------------------------------------------------------------- state

VARIABLES
  imgCfg,      \* the merged configuration
  agentName,   \* the selected agent
  env,         \* the tokens of AGENT_EN_PLACE_TOOLS
  flag,        \* AGENT_EN_PLACE_SPECIFIED_TOOLS_ONLY is set
  toolFile,    \* .tool-versions (present = FALSE when there is none)
  miseFile,    \* mise.toml (present = FALSE when there is none)
  disk,        \* the idiomatic version files
  pc,          \* the position of Run, or of ResolveToolDeps
  collection,  \* the result of collectToolSpecs
  imageName,   \* the result of buildImageName
  labels,      \* the LABEL lines of the build recipe
  agentMise,   \* the result of buildAgentMiseConfig
  prev,        \* the outputs of the runs before, over the same inputs
  userTools,   \* ResolveToolDeps: the userTools argument
  queue,       \* ResolveToolDeps: the queue
  seen,        \* ResolveToolDeps: the seen set
  result,      \* ResolveToolDeps: the result
  layers,      \* LoadMergedConfig: the configuration files it finds
  loadResult,  \* LoadMergedConfig: what it returned
  applied,     \* LoadMergedConfig: the calls of applyImageCustomizations
  aptPackages, \* buildDockerfile: the packages of the apt-get install line
  buildContext, \* makeBuildContext: what it returned
  token,       \* splitToolVersion: its argument
  split,       \* splitToolVersion: the pair it returned
  events,      \* handleBuildOutput: the lines of the build response
  pos,         \* handleBuildOutput: the line the scanner reads next
  lastLines,   \* handleBuildOutput: the stream lines kept for the error
  buildErr,    \* handleBuildOutput: the error it returned
  runCfg,      \* Run: the flags of the command line
  daemon,      \* Run: the container runtime it talks to
  calls,       \* Run: what it printed and asked of the runtime, in order
  runErr,      \* Run: the error it returned
  pkgQueue,    \* ResolveAdditionalPackages: the tools still to visit
  pkgSeen,     \* ResolveAdditionalPackages: the tools visited
  pkgResult,   \* ResolveAdditionalPackages: the packages collected
  pkgVisited,  \* ResolveAdditionalPackages: the tools visited, in visit order
  tagInput,    \* sanitizeTagComponent: its argument
  tagOutput,   \* sanitizeTagComponent: its result
  dockerfile,  \* buildDockerfile: the lines of the recipe
  heap,        \* the maps and backing arrays of the configurations in memory
  refs,        \* mergeConfigs: its arguments and its result, as they refer to the heap
  heapBefore   \* the heap when LoadMergedConfig had loaded its files

inputs == <<imgCfg, agentName, env, flag, toolFile, miseFile, disk>>

outputs == <<collection, imageName, labels, agentMise>>

walk == <<userTools, queue, seen, result>>

loader == <<layers, loadResult, applied>>

\* What the steps of Run and of ResolveToolDeps do not touch.
splitter == <<token, split>>

build == <<events, pos, lastLines, buildErr>>

pkgWalk == <<pkgQueue, pkgSeen, pkgResult, pkgVisited>>

sanitizer == <<tagInput, tagOutput>>

aliasing == <<heap, refs, heapBefore>>

more == <<pkgWalk, sanitizer, dockerfile, aliasing>>

run == <<runCfg, daemon, calls, runErr>>

rest == <<loader, aptPackages, buildContext, splitter, build, run, more>>

vars == <<inputs, pc, outputs, prev, walk, rest>>

\* LoadMergedConfig is not running.
LoaderIdle ==
  /\ layers = <<>>
  /\ loadResult = [cfg |-> <<>>, err |-> FALSE]
  /\ applied = 0

\* Neither buildDockerfile nor makeBuildContext has run.
RecipeIdle ==
  /\ aptPackages = <<>>
  /\ buildContext = [err |-> FALSE, files |-> <<>>]

\* splitToolVersion has no argument.
SplitIdle == token = <<>> /\ split = <<>>

\* No build was started.
OutputIdle ==
  /\ events = <<>> /\ pos = 1 /\ lastLines = <<>>
  /\ buildErr = [kind |-> "none", image |-> <<>>, context |-> <<>>]

\* Run was not called.
RunIdle ==
  /\ runCfg = [DockerfileOnly |-> FALSE, MiseFileOnly |-> FALSE, Rebuild |-> FALSE]
  /\ daemon = [client |-> TRUE, hasImage |-> FALSE, builds |-> TRUE]
  /\ calls = <<>>
  /\ runErr = ""

\* ResolveAdditionalPackages is not running.
PkgWalkIdle == pkgQueue = <<>> /\ pkgSeen = {} /\ pkgResult = <<>> /\ pkgVisited = <<>>

\* sanitizeTagComponent has no argument.
SanitizerIdle == tagInput = <<>> /\ tagOutput = <<>>

\* No configuration is in memory.
AliasingIdle == heap = <<>> /\ refs = <<>> /\ heapBefore = <<>>

\* None of the later steps runs.
MoreIdle == PkgWalkIdle /\ SanitizerIdle /\ dockerfile = <<>> /\ AliasingIdle

RestIdle == LoaderIdle /\ RecipeIdle /\ SplitIdle /\ OutputIdle /\ RunIdle /\ MoreIdle

spec == ToToolSpec(imgCfg.Agents[agentName])

\* ------------------------------------------------------------- the pipeline

\* Run up to the call of collectToolSpecs: the configuration is loaded, the
\* agent is one of its agents, the files and the environment are read.
Init ==
  /\ imgCfg = DefaultConfig
  /\ agentName \in {"claude", "codex"}
  /\ env \in EnvLists
  /\ flag \in BOOLEAN
  /\ toolFile \in ToolFiles
  /\ miseFile \in MiseFiles
  /\ disk \in Disks
  /\ pc = "collect"
  /\ collection = Nil /\ imageName = Nil /\ labels = Nil /\ agentMise = Nil
  /\ prev = <<>>
  /\ userTools = {} /\ queue = <<>> /\ seen = {} /\ result = <<>>
  /\ RestIdle

\* collection := collectToolSpecs(...), under some iteration order of the tools
\* table of mise.toml and of the table of idiomatic files.
CollectToolSpecs ==
  /\ pc = "collect"
  /\ \E miseOrder \in Perms(UserMiseKeys(miseFile)), idiomaticOrder \in Perms(FoundTools(disk)) :
       collection' = collectToolSpecs(toolFile, miseFile, spec, imgCfg, agentName,
                                      env, flag, disk, miseOrder, idiomaticOrder)
  /\ pc' = "image"
  /\ UNCHANGED <<inputs, imageName, labels, agentMise, prev, walk, rest>>

\* imageName := buildImageName(collection.specs); the recipe gets its labels.
BuildImageName ==
  /\ pc = "image"
  /\ imageName' = buildImageName(collection.specs)
  /\ labels' = buildToolLabels(collection.specs)
  /\ pc' = "manifest"
  /\ UNCHANGED <<inputs, collection, agentMise, prev, walk, rest>>

\* agentMise := buildAgentMiseConfig(mise.toml bytes, collection, spec), as
\* makeBuildContext and the mise-file mode of Run call it.
BuildAgentMiseConfig ==
  /\ pc = "manifest"
  /\ agentMise' = buildAgentMiseConfig(miseFile, collection, spec)
  /\ buildContext' = makeBuildContext(toolFile, miseFile, collection, spec)
  /\ pc' = "done"
  /\ UNCHANGED <<inputs, collection, imageName, labels, prev, walk, loader, aptPackages,
                 splitter, build, run, more>>

\* The program is run once more over the same inputs.
RunAgain ==
  /\ pc = "done"
  /\ prev = <<>>
  /\ prev' = <<[collection |-> collection, imageName |-> imageName,
               labels |-> labels, agentMise |-> agentMise]>>
  /\ pc' = "collect"
  /\ collection' = Nil /\ imageName' = Nil /\ labels' = Nil /\ agentMise' = Nil
  /\ UNCHANGED <<inputs, walk, rest>>

Next == CollectToolSpecs \/ BuildImageName \/ BuildAgentMiseConfig

Spec == Init /\ [][Next]_vars

\* Two runs over one project: one agent, every combination of the files.
InitRuns ==
  /\ Init
  /\ agentName = "claude"

NextRuns == Next \/ RunAgain

SpecRuns == InitRuns /\ [][NextRuns]_vars

\* A mise.toml that pins the package of an agent beside a key whose value is
\* not a string.
PinnedMise(agent) ==
  [present |-> TRUE, ok |-> TRUE,
   tools |-> (DefaultConfig.Agents[agent].PackageName :> MiseString(<<"2">>))
               @@ (S_python :> MiseTable)]

\* Every agent of the default configuration, in a project without
\* .tool-versions whose mise.toml may pin the package of the agent.
InitAgents ==
  /\ imgCfg = DefaultConfig
  /\ agentName \in DOMAIN DefaultConfig.Agents
  /\ env \in EnvLists
  /\ flag \in BOOLEAN
  /\ toolFile = [present |-> FALSE, lines |-> <<>>]
  /\ miseFile \in MiseFiles \cup {PinnedMise(agentName)}
  /\ disk \in Disks
  /\ pc = "collect"
  /\ collection = Nil /\ imageName = Nil /\ labels = Nil /\ agentMise = Nil
  /\ prev = <<>>
  /\ userTools = {} /\ queue = <<>> /\ seen = {} /\ result = <<>>
  /\ RestIdle

SpecAgents == InitAgents /\ [][Next]_vars


\* ------------------------------------------------- ResolveToolDeps, stepwise

\* The tools a configuration of the walk may declare.
DepTools == {S_node, S_python, S_ruby}

\* Every configuration in which each of node, python and ruby depends on
\* nothing, on one of the three (itself included) or on a tool without entry.
\* ruby has no version. Agent "a" depends on node; agent "dup" names python
\* twice around node. The walk is also run on the default configuration, for
\* its agent "claude"; an agent a configuration does not have is unknown.
DepConfigs ==
  { [Tools |-> [t \in DepTools |->
                 [Version |-> IF t = S_ruby THEN <<>> ELSE S_v20,
                  Depends |-> d[t],
                  AdditionalPackages |-> <<>>]],
     Agents |-> ("a" :> [PackageName |-> S_pkgClaude, Depends |-> <<S_node>>])
                @@ ("dup" :> [PackageName |-> S_pkgCodex,
                              Depends |-> <<S_python, S_node, S_python>>])]
    : d \in [DepTools -> {<<>>, S_node, S_python, S_ruby, S_go}] }

InitDeps ==
  /\ imgCfg \in DepConfigs \cup {DefaultConfig}
  /\ agentName \in {"a", "dup", "claude"}
  /\ userTools \in SUBSET {S_node, S_python, S_ruby}
  /\ pc = "deps_start"
  /\ queue = <<>> /\ seen = {} /\ result = <<>>
  /\ env = <<>> /\ flag = FALSE
  /\ toolFile = [present |-> FALSE, lines |-> <<>>]
  /\ miseFile = [present |-> FALSE, ok |-> TRUE, tools |-> <<>>]
  /\ disk = <<>>
  /\ collection = Nil /\ imageName = Nil /\ labels = Nil /\ agentMise = Nil
  /\ prev = <<>>
  /\ RestIdle

\* The agent is looked up; an unknown agent returns nil, else its depends list
\* is copied into the queue.
ResolveToolDepsStart ==
  /\ pc = "deps_start"
  /\ IF agentName \notin DOMAIN imgCfg.Agents
       THEN pc' = "deps_done" /\ queue' = queue
       ELSE pc' = "deps_loop" /\ queue' = imgCfg.Agents[agentName].Depends
  /\ UNCHANGED <<inputs, outputs, prev, userTools, seen, result, rest>>

\* One iteration of the loop.
ResolveToolDepsLoop ==
  /\ pc = "deps_loop"
  /\ queue # <<>>
  /\ LET st == ResolveLoopBody(imgCfg, userTools,
                 [queue |-> queue, seen |-> seen, result |-> result])
     IN queue' = st.queue /\ seen' = st.seen /\ result' = st.result
  /\ UNCHANGED <<inputs, outputs, prev, userTools, pc, rest>>

\* The queue is empty: the result is returned.
ResolveToolDepsReturn ==
  /\ pc = "deps_loop"
  /\ queue = <<>>
  /\ pc' = "deps_done"
  /\ UNCHANGED <<inputs, outputs, prev, walk, rest>>

NextDeps == ResolveToolDepsStart \/ ResolveToolDepsLoop \/ ResolveToolDepsReturn

SpecDeps == InitDeps /\ [][NextDeps]_vars

\* ------------------------------------------------- buildImageName, by itself

\* The longest descriptor list handed to buildImageName.
MaxTagSpecs == 2

\* Descriptors whose name or version may normalise to nothing.
TagDescriptors ==
  { [name |-> n, version |-> v, labelName |-> <<>>, source |-> "user"] :
      n \in {S_node, S_pkgCodex, S_star}, v \in {S_v20, S_latest, S_star} }

InitTag ==
  /\ collection \in { [specs |-> l, idiomaticPaths |-> <<>>, idiomaticInfos |-> <<>>,
                       userTools |-> {}] : l \in SeqsUpTo(TagDescriptors, MaxTagSpecs) }
  /\ pc = "image"
  /\ imgCfg = DefaultConfig /\ agentName = "codex"
  /\ env = <<>> /\ flag = FALSE
  /\ toolFile = [present |-> FALSE, lines |-> <<>>]
  /\ miseFile = [present |-> FALSE, ok |-> TRUE, tools |-> <<>>]
  /\ disk = <<>>
  /\ imageName = Nil /\ labels = Nil /\ agentMise = Nil
  /\ prev = <<>>
  /\ userTools = {} /\ queue = <<>> /\ seen = {} /\ result = <<>>
  /\ RestIdle

NextTag == BuildImageName

SpecTag == InitTag /\ [][NextTag]_vars


\* ------------------------------------------------------------- properties

\* collectToolSpecs has just returned.
Collected == pc = "image"

\* The normalised names of the resolved tool list.
ResolvedNames ==
  { sanitizeTagComponent(collection.specs[i].name) : i \in DOMAIN collection.specs }

\* Specified-tools-only mode is in effect.
ModeOn == flag /\ parseEnvTools(env) # <<>>

\* The (normalised name, version) pairs of a descriptor list.
Pairs(specs) ==
  { <<sanitizeTagComponent(specs[i].name),
      IF specs[i].version = <<>> THEN S_latest ELSE specs[i].version>> : i \in DOMAIN specs }

\* What each source, numbered in precedence order, says in this run: the
\* override list, .tool-versions, mise.toml, the idiomatic files, the config
\* dependencies of the agent. In specified-tools-only mode only the override
\* list is consulted.
Src(k) ==
  CASE k = 1 -> Pairs(parseEnvTools(env))
    [] k = 2 -> IF ModeOn THEN {} ELSE Pairs(parseToolVersions(toolFile))
    [] k = 3 -> IF ModeOn THEN {}
                ELSE { <<sanitizeTagComponent(key), miseFile.tools[key].v>> :
                         key \in { x \in UserMiseKeys(miseFile) : miseFile.tools[x].isString } }
    [] k = 4 -> IF ModeOn THEN {}
                ELSE { <<sanitizeTagComponent(t),
                         FirstCandidate(disk, t, idiomaticToolFiles[t])[1].version>> :
                         t \in FoundTools(disk) }
    [] k = 5 -> IF ModeOn THEN {}
                ELSE Pairs(ResolveToolDeps(imgCfg, agentName, collection.userTools))

\* The provenance a descriptor of each source carries.
SrcTag(k) == CASE k \in {1} -> "env" [] k \in {2, 3} -> "user" [] k = 4 -> "" [] k = 5 -> "config"

SrcNames(k) == { p[1] : p \in Src(k) } \ {<<>>}

SourceNames == UNION { SrcNames(k) : k \in 1..5 }

\* The highest-precedence source that names n.
Top(n) == CHOOSE k \in 1..5 : n \in SrcNames(k) /\ \A j \in 1..(k - 1) : n \notin SrcNames(j)

\* C1: every tool named by a consulted source is resolved, and its descriptor
\* carries a version and the provenance of the highest-precedence source that
\* names it (override list > .tool-versions > mise.toml > idiomatic files >
\* config dependencies), names compared after normalisation.
C1_PrecedenceOrder ==
  Collected =>
    /\ \A n \in SourceNames : n \in ResolvedNames
    /\ \A i \in DOMAIN collection.specs :
         LET d == collection.specs[i]
             n == sanitizeTagComponent(d.name)
         IN n \in SourceNames =>
              /\ <<n, d.version>> \in Src(Top(n))
              /\ d.source = SrcTag(Top(n))

\* node is named by the override list (20), .tool-versions (18), mise.toml (16)
\* and an idiomatic file, and resolves to 20.
C1_Witness ==
  /\ Collected
  /\ \A k \in 1..5 : sanitizeTagComponent(S_node) \in SrcNames(k)
  /\ \E i \in DOMAIN collection.specs :
       collection.specs[i].name = S_node /\ collection.specs[i].version = S_v20

\* The tool a configuration makes t depend on ("" when none, or no entry).
DependsOf(t) == IF t \in DOMAIN imgCfg.Tools THEN imgCfg.Tools[t].Depends ELSE <<>>

\* The tools on the chain that starts at t and goes on through the depends edge
\* of each tool that is in userTools, at most n edges long.
RECURSIVE Chain(_, _)
Chain(t, n) ==
  {t} \cup (IF n > 0 /\ t \in userTools /\ DependsOf(t) # <<>>
              THEN Chain(DependsOf(t), n - 1) ELSE {})

\* The tools reachable from the direct depends list of the agent.
ChainReachable ==
  IF agentName \notin DOMAIN imgCfg.Agents THEN {}
  ELSE UNION { Chain(t, Cardinality(DOMAIN imgCfg.Tools) + 1) :
                 t \in Range(imgCfg.Agents[agentName].Depends) }

ResultNames == { result[i].name : i \in DOMAIN result }

\* C2: the result of ResolveToolDeps holds exactly the tools reachable from the
\* agent's depends list by a chain whose every tool before the last is in
\* userTools, each once; with the default configuration and an agent depending
\* on node that is node alone for empty userTools, node and python for {node}.
C2_DependsGatedByUserTools ==
  pc = "deps_done" =>
    /\ ResultNames = ChainReachable
    /\ Cardinality(ResultNames) = Len(result)
    /\ (imgCfg = DefaultConfig /\ agentName = "claude") =>
         /\ userTools = {} => ResultNames = {S_node}
         /\ userTools = {S_node} => ResultNames = {S_node, S_python}

\* A walk that followed the edge of a user tool and did not follow the edge of
\* a tool the user did not name.
C2_Witness ==
  /\ pc = "deps_done"
  /\ \E t \in ResultNames : t \in userTools /\ DependsOf(t) \in ResultNames \ {t}
  /\ \E u \in ResultNames : u \notin userTools /\ DependsOf(u) # <<>>
                              /\ DependsOf(u) \notin ResultNames

\* The names, as written, that the user gave in the override list, in
\* .tool-versions and as string entries of mise.toml.
UserSupplied ==
  { d.name : d \in Range(parseEnvTools(env)) \cup Range(parseToolVersions(toolFile)) }
    \cup { key \in UserMiseKeys(miseFile) : miseFile.tools[key].isString }

\* No source names python, and the user names nothing that normalises to node.
NothingSupplied ==
  /\ S_node \notin { sanitizeTagComponent(n) : n \in UserSupplied }
  /\ S_python \notin { sanitizeTagComponent(n) : n \in UserSupplied }
  /\ S_python \notin { sanitizeTagComponent(t) : t \in FoundTools(disk) }

\* C3 as stated: whenever the user supplies node in the override list,
\* .tool-versions or mise.toml, node is in userTools and python is resolved.
C3_UserToolPullsDepends ==
  (Collected /\ S_node \in UserSupplied) =>
    /\ S_node \in collection.userTools
    /\ S_python \in ResolvedNames

\* C3: outside specified-tools-only mode, node supplied by the user in the
\* override list, .tool-versions or mise.toml is in userTools and python, which
\* node depends on, is resolved; when the user supplies neither, python is absent.
C3_UserToolPullsDependsUnlessSpecifiedOnly ==
  Collected =>
    /\ (~ModeOn /\ S_node \in UserSupplied) =>
         /\ S_node \in collection.userTools
         /\ S_python \in ResolvedNames
    /\ NothingSupplied => S_python \notin ResolvedNames

\* node comes from mise.toml alone, the flag is set without an override list,
\* and python was pulled in by the configuration.
C3_Witness ==
  /\ Collected
  /\ flag /\ env = <<>> /\ ~toolFile.present
  /\ S_node \in UserSupplied
  /\ \E i \in DOMAIN collection.specs :
       collection.specs[i].name = S_python /\ collection.specs[i].source = "config"

\* C4: no two descriptors of the resolved tool list have the same normalised
\* name.
C4_OneDescriptorPerNormalizedName ==
  Collected =>
    \A i, j \in DOMAIN collection.specs :
      sanitizeTagComponent(collection.specs[i].name)
        = sanitizeTagComponent(collection.specs[j].name) => i = j

\* A source names the package of the agent, and mise.toml names node in two
\* cases.
C4_Witness ==
  /\ Collected
  /\ ~ModeOn
  /\ spec.MiseToolName \in UserSupplied
  /\ {S_node, S_Node} \subseteq UserSupplied

\* The outputs of the run that has just ended.
Outputs ==
  [collection |-> collection, imageName |-> imageName, labels |-> labels,
   agentMise |-> agentMise]

\* C5 as stated: a second run over the same inputs ends with the outputs of
\* the first: tool list, image tag, recipe labels and agent manifest.
C5_RunsAgree == (pc = "done" /\ prev # <<>>) => prev[1] = Outputs

\* C6: in specified-tools-only mode with a non-empty override list the
\* resolved tools are exactly those of the list and the package of the agent,
\* and no idiomatic file is listed for copying.
C6_SpecifiedToolsOnly ==
  (Collected /\ flag /\ parseEnvTools(env) # <<>>) =>
    /\ ResolvedNames =
         { sanitizeTagComponent(d.name) : d \in Range(parseEnvTools(env)) }
           \cup {sanitizeTagComponent(spec.MiseToolName)}
    /\ collection.idiomaticPaths = <<>>

\* The mode is on in a project whose .tool-versions, mise.toml and idiomatic
\* files name tools that the override list does not.
C6_Witness ==
  /\ Collected
  /\ flag /\ parseEnvTools(env) # <<>>
  /\ S_ruby \in UserSupplied
  /\ S_node \in UserSupplied
  /\ S_python \in { sanitizeTagComponent(t) : t \in FoundTools(disk) }
  /\ S_node \notin ResolvedNames

\* C7: with the flag set and an empty override list collectToolSpecs returns
\* what it returns with the flag unset, under each iteration order of the maps.
C7_FlagWithoutListIsNoOp ==
  (flag /\ parseEnvTools(env) = <<>>) =>
    /\ \A miseOrder \in Perms(UserMiseKeys(miseFile)), idiomaticOrder \in Perms(FoundTools(disk)) :
         collectToolSpecs(toolFile, miseFile, spec, imgCfg, agentName, env, TRUE,
                          disk, miseOrder, idiomaticOrder)
           = collectToolSpecs(toolFile, miseFile, spec, imgCfg, agentName, env, FALSE,
                              disk, miseOrder, idiomaticOrder)
    /\ Collected =>
         \E miseOrder \in Perms(UserMiseKeys(miseFile)), idiomaticOrder \in Perms(FoundTools(disk)) :
           collection = collectToolSpecs(toolFile, miseFile, spec, imgCfg, agentName, env,
                                         FALSE, disk, miseOrder, idiomaticOrder)

\* The flag is set without a list and file-based discovery ran: a tool of
\* .tool-versions is resolved and an idiomatic file is listed.
C7_Witness ==
  /\ Collected
  /\ flag /\ parseEnvTools(env) = <<>>
  /\ S_ruby \in ResolvedNames
  /\ collection.idiomaticPaths # <<>>

\* The normalised package name of the agent.
PackageKey == sanitizeTagComponent(spec.MiseToolName)

\* C8: the resolved tool list always has the package of the agent. When no
\* consulted source names it, it is the last descriptor, at "latest", after
\* one descriptor per tool the sources name; when a source names it, the list
\* has one descriptor per tool the sources name and nothing more, and the
\* package has the version of its highest-precedence source.
C8_DefaultToolInjection ==
  Collected =>
    LET specs == collection.specs IN
    /\ PackageKey \in ResolvedNames
    /\ PackageKey \notin SourceNames =>
         /\ Len(specs) = Cardinality(SourceNames) + 1
         /\ specs[Len(specs)].name = spec.MiseToolName
         /\ specs[Len(specs)].version = S_latest
         /\ \A i \in 1..(Len(specs) - 1) : specs[i].name \in SourceNames
    /\ PackageKey \in SourceNames =>
         /\ Len(specs) = Cardinality(SourceNames)
         /\ \A i \in DOMAIN specs :
              /\ specs[i].name \in SourceNames
              /\ specs[i].name = PackageKey => <<PackageKey, specs[i].version>> \in Src(Top(PackageKey))

\* mise.toml pins the package of the agent at 2 and the resolved list keeps 2.
C8_Witness ==
  /\ Collected
  /\ PackageKey \in SrcNames(3)
  /\ PackageKey \notin SrcNames(1)
  /\ \E i \in DOMAIN collection.specs :
       collection.specs[i].name = PackageKey /\ collection.specs[i].version = <<"2">>

\* C9: the keys of the agent manifest and the keys of the tools table of the
\* user's mise.toml are disjoint, for every agent of the default configuration.
C9_AgentManifestDisjointFromUserManifest ==
  (pc = "done" /\ ~agentMise.err) =>
    DOMAIN agentMise.tools \cap UserMiseKeys(miseFile) = {}

\* The user's mise.toml has the package of the agent and a tool that the
\* collection has an info for; the manifest was written without them.
C9_Witness ==
  /\ pc = "done"
  /\ ~agentMise.err
  /\ agentName # "claude"
  /\ spec.ConfigKey \in UserMiseKeys(miseFile)
  /\ \E i \in DOMAIN collection.idiomaticInfos :
       /\ collection.idiomaticInfos[i].configKey \in UserMiseKeys(miseFile)
       /\ collection.idiomaticInfos[i].configKey # spec.ConfigKey
  /\ DOMAIN agentMise.tools # {}

\* The hyphen-joined tag parts of the first k descriptors, a part being the
\* normalised name (or `orName`), a hyphen, the normalised version (or `orVersion`).
RECURSIVE TagOf(_, _, _, _)
TagOf(specs, k, orName, orVersion) ==
  IF k = 0 THEN <<>>
  ELSE LET n == sanitizeTagComponent(specs[k].name)
           v == sanitizeTagComponent(specs[k].version)
       IN TagOf(specs, k - 1, orName, orVersion)
            \o (IF k > 1 THEN <<"-">> ELSE <<>>)
            \o (IF n = <<>> THEN orName ELSE n) \o <<"-">>
            \o (IF v = <<>> THEN orVersion ELSE v)

\* C10 as stated: the image name is the repository, ":" and the hyphen-joined
\* normalizedName-normalizedVersion of the descriptors in order, "latest" for
\* the empty list.
C10_TagIsJoinedNameVersion ==
  pc = "manifest" =>
    imageName = imageRepository \o <<":">>
                  \o (IF collection.specs = <<>> THEN S_latest
                      ELSE TagOf(collection.specs, Len(collection.specs), <<>>, <<>>))

\* C10: the image name is the repository, ":" and the hyphen-joined parts of
\* the descriptors in order, a part being the normalised name, or "tool" when
\* that is empty, a hyphen, and the normalised version, or "latest" when that
\* is empty; the tag is "latest" for the empty list.
C10_TagIsJoinedNameVersionWithFallbacks ==
  pc = "manifest" =>
    imageName = imageRepository \o <<":">>
                  \o (IF collection.specs = <<>> THEN S_latest
                      ELSE TagOf(collection.specs, Len(collection.specs), S_tool, S_latest))

\* The tag of two descriptors, one of them with a version that normalises to
\* nothing.
C10_Witness ==
  /\ pc = "manifest"
  /\ Len(collection.specs) = 2
  /\ collection.specs[1].name = S_node /\ collection.specs[1].version = S_star
  /\ collection.specs[2].version = S_v20

\* The default scenario: agent claude, the default configuration, no
\* .tool-versions, no mise.toml, no idiomatic file, no override list.
DefaultScenario ==
  /\ imgCfg = DefaultConfig /\ agentName = "claude"
  /\ env = <<>>
  /\ ~toolFile.present /\ ~miseFile.present
  /\ disk = <<>>

\* mheap/agent-en-place:node-latest-npm-anthropic-ai-claude-code-latest
DefaultScenarioImage ==
  <<"m","h","e","a","p","/","a","g","e","n","t","-","e","n","-","p","l","a",
    "c","e",":","n","o","d","e","-","l","a","t","e","s","t","-","n","p","m",
    "-","a","n","t","h","r","o","p","i","c","-","a","i","-","c","l","a","u",
    "d","e","-","c","o","d","e","-","l","a","t","e","s","t">>

\* C11: in the default scenario collectToolSpecs resolves exactly node at
\* latest and the claude package at latest, without python, and the image
\* name is mheap/agent-en-place:node-latest-npm-anthropic-ai-claude-code-latest.
C11_DefaultScenario ==
  DefaultScenario =>
    /\ pc \in {"image", "manifest", "done"} =>
         /\ Len(collection.specs) = 2
         /\ collection.specs[1].name = S_node
         /\ collection.specs[1].version = S_latest
         /\ collection.specs[2].name = S_pkgClaude
         /\ collection.specs[2].version = S_latest
         /\ S_python \notin ResolvedNames
    /\ pc \in {"manifest", "done"} => imageName = DefaultScenarioImage

\* The default scenario with its image named.
C11_Witness == DefaultScenario /\ ~flag /\ pc = "manifest"


\* ------------------------------------------------ configuration layers

\* Package names.
S_curl == <<"c","u","r","l">>

S_caCertificates == <<"c","a","-","c","e","r","t","i","f","i","c","a","t","e","s">>

S_git == <<"g","i","t">>

S_gnupg == <<"g","n","u","p","g">>

S_aptTransportHttps == <<"a","p","t","-","t","r","a","n","s","p","o","r","t","-","h","t","t","p","s">>

S_vim == <<"v","i","m">>

S_buildEssential == <<"b","u","i","l","d","-","e","s","s","e","n","t","i","a","l">>

\* The zero ImageConfig: what a file without any section parses to.
ZeroConfig ==
  [Tools |-> <<>>, Agents |-> <<>>,
   Image |-> [Base |-> "", Packages |-> <<>>],
   Mise |-> [Install |-> <<>>, Env |-> <<>>],
   ImageCustomizations |-> [Packages |-> <<>>]]

\* The embedded default configuration, whole.
DefaultLayer ==
  [Tools |-> DefaultTools, Agents |-> DefaultAgents,
   Image |-> [Base |-> "debian:12-slim",
              Packages |-> <<S_curl, S_caCertificates, S_git, S_gnupg, S_aptTransportHttps>>],
   Mise |-> [Install |-> <<"install -dm 755 /etc/apt/keyrings", "apt-get update",
                           "apt-get install -y mise">>,
             Env |-> ("ruby_compile" :> "false")],
   ImageCustomizations |-> [Packages |-> <<>>]]

\* The two map loops of mergeConfigs with the entries of the base copied last.
MergeMapBaseWins(base, user) ==
  [k \in DOMAIN base \cup DOMAIN user |-> IF k \in DOMAIN base THEN base[k] ELSE user[k]]

\* The two map loops of mergeConfigs: the entries of the base are copied, then
\* those of the user file are set over them.
MergeMap(base, user) ==
  [k \in DOMAIN base \cup DOMAIN user |-> IF k \in DOMAIN user THEN user[k] ELSE base[k]]

\* The customizations of the user file replacing those of the base.
MergeCustomizationsReplace(base, user) == IF Len(user) > 0 THEN user ELSE base

\* mergeConfigs on the customization lists: those of the user file are
\* appended to those of the base.
MergeCustomizations(base, user) == IF Len(user) > 0 THEN base \o user ELSE base

\* mergeConfigs
mergeConfigs(base, user) ==
  [Tools |-> MergeMap(base.Tools, user.Tools),
   Agents |-> MergeMap(base.Agents, user.Agents),
   Image |-> [Base |-> IF user.Image.Base # "" THEN user.Image.Base ELSE base.Image.Base,
              Packages |-> IF Len(user.Image.Packages) > 0 THEN user.Image.Packages
                           ELSE base.Image.Packages],
   Mise |-> [Install |-> IF Len(user.Mise.Install) > 0 THEN user.Mise.Install
                         ELSE base.Mise.Install,
             Env |-> IF DOMAIN user.Mise.Env # {}
                       THEN MergeMap(base.Mise.Env, user.Mise.Env)
                       ELSE base.Mise.Env],
   ImageCustomizations |->
     [Packages |-> MergeCustomizations(base.ImageCustomizations.Packages,
                                       user.ImageCustomizations.Packages)]]

\* The inner loop of a "remove": the packages other than value, in order.
RECURSIVE RemoveLoop(_, _)
RemoveLoop(packages, value) ==
  IF packages = <<>> THEN <<>>
  ELSE (IF Head(packages) = value THEN <<>> ELSE <<Head(packages)>>)
         \o RemoveLoop(Tail(packages), value)

\* One operation in which any operation that is not a "remove" adds.
ApplyOpElseAdd(packages, customization) ==
  IF customization.Op = "remove" THEN RemoveLoop(packages, customization.Value)
  ELSE Append(packages, customization.Value)

\* One operation of applyImageCustomizations on the package list.
ApplyOp(packages, customization) ==
  CASE customization.Op = "add" -> Append(packages, customization.Value)
    [] customization.Op = "remove" -> RemoveLoop(packages, customization.Value)
    [] OTHER -> packages

RECURSIVE ApplyLoop(_, _)
ApplyLoop(packages, customizations) ==
  IF customizations = <<>> THEN packages
  ELSE ApplyLoop(ApplyOp(packages, Head(customizations)), Tail(customizations))

\* applyImageCustomizations
applyImageCustomizations(cfg) ==
  [cfg EXCEPT !.Image.Packages = ApplyLoop(cfg.Image.Packages, cfg.ImageCustomizations.Packages)]

\* A configuration file on disk: missing, unreadable or malformed ("bad"), or
\* one that parses to cfg.
FileMissing == [state |-> "missing", cfg |-> ZeroConfig]

FileBad == [state |-> "bad", cfg |-> ZeroConfig]

FileOk(cfg) == [state |-> "ok", cfg |-> cfg]

\* loadConfigFile: (nil, nil) for a missing file, (nil, err) for one that
\* cannot be read or parsed, else (cfg, nil).
loadConfigFile(file) ==
  CASE file.state = "missing" -> [cfg |-> <<>>, err |-> FALSE]
    [] file.state = "bad" -> [cfg |-> <<>>, err |-> TRUE]
    [] OTHER -> [cfg |-> <<file.cfg>>, err |-> FALSE]

\* A layer merged and the customizations gathered so far applied at once.
MergeLayerApplying(base, layer) == applyImageCustomizations(mergeConfigs(base, layer))

\* base = mergeConfigs(base, layer) in LoadMergedConfig.
MergeLayer(base, layer) == mergeConfigs(base, layer)

\* The XDG and the project-local step of LoadMergedConfig: the error of
\* loadConfigFile is returned, a missing file is skipped, a file is merged.
OptionalLayer(base, file) ==
  LET r == loadConfigFile(file) IN
    IF r.err THEN [cfg |-> <<>>, err |-> TRUE]
    ELSE IF r.cfg = <<>> THEN [cfg |-> <<base>>, err |-> FALSE]
    ELSE [cfg |-> <<MergeLayer(base, r.cfg[1])>>, err |-> FALSE]

\* The explicit step with a missing file skipped like the other layers.
ExplicitLayerSkipping(base, configPath, file) ==
  IF configPath = "" THEN [cfg |-> <<base>>, err |-> FALSE] ELSE OptionalLayer(base, file)

\* The explicit step of LoadMergedConfig: nothing without a path; with one,
\* a missing file is an error too.
ExplicitLayer(base, configPath, file) ==
  IF configPath = "" THEN [cfg |-> <<base>>, err |-> FALSE]
  ELSE LET r == loadConfigFile(file) IN
    IF r.err THEN [cfg |-> <<>>, err |-> TRUE]
    ELSE IF r.cfg = <<>> THEN [cfg |-> <<>>, err |-> TRUE]
    ELSE [cfg |-> <<MergeLayer(base, r.cfg[1])>>, err |-> FALSE]

\* Configuration files that parse: an empty one; one that overrides a tool, an
\* agent and a mise variable and adds a package; one that adds a tool, an
\* agent and a variable, replaces the package list and removes and adds; one
\* that replaces the package list, removes what another layer adds and has an
\* operation of unknown name; one that sets the base image and the install
\* commands and adds a package the default has; one that overrides two tools
\* and removes a package.
LayerConfigs ==
  { ZeroConfig,
    [ZeroConfig EXCEPT
       !.Tools = (S_node :> [Version |-> S_v20, Depends |-> <<>>, AdditionalPackages |-> <<>>]),
       !.Agents = ("claude" :> [PackageName |-> S_pkgClaude, Depends |-> <<S_python>>]),
       !.Mise.Env = ("ruby_compile" :> "true"),
       !.ImageCustomizations.Packages = << [Op |-> "add", Value |-> S_vim] >>],
    [ZeroConfig EXCEPT
       !.Tools = (S_ruby :> [Version |-> S_v39, Depends |-> S_node, AdditionalPackages |-> <<S_git>>]),
       !.Agents = ("mine" :> [PackageName |-> S_pkgGemini, Depends |-> <<>>]),
       !.Mise.Env = ("jobs" :> "4"),
       !.Image.Packages = <<S_git, S_curl>>,
       !.ImageCustomizations.Packages =
          << [Op |-> "remove", Value |-> S_gnupg], [Op |-> "add", Value |-> S_buildEssential] >>],
    [ZeroConfig EXCEPT
       !.Image.Packages = <<S_curl>>,
       !.ImageCustomizations.Packages =
          << [Op |-> "remove", Value |-> S_vim], [Op |-> "replace", Value |-> S_curl] >>],
    [ZeroConfig EXCEPT
       !.Image.Base = "alpine:3",
       !.Mise.Install = <<"curl https://mise.run | sh">>,
       !.ImageCustomizations.Packages = << [Op |-> "add", Value |-> S_curl] >>],
    [ZeroConfig EXCEPT
       !.Tools = (S_node :> [Version |-> S_v18, Depends |-> S_python, AdditionalPackages |-> <<S_libatomic1>>])
                   @@ (S_python :> [Version |-> S_v39, Depends |-> <<>>, AdditionalPackages |-> <<>>]),
       !.ImageCustomizations.Packages = << [Op |-> "remove", Value |-> S_git] >>] }

ConfigFiles == {FileMissing, FileBad} \cup { FileOk(cfg) : cfg \in LayerConfigs }

\* What LoadMergedConfig finds: the embedded default, the XDG file (no path
\* when there is no home directory), the project-local file, and the file of
\* --config when a path is given.
LayerSets ==
  { [default |-> DefaultLayer, xdgPath |-> xp, xdg |-> x, local |-> l,
     configPath |-> cp, explicit |-> e] :
      xp \in {"", "xdg"}, x \in ConfigFiles, l \in ConfigFiles,
      cp \in {"", "explicit"}, e \in ConfigFiles }

\* The variables of Run and of ResolveToolDeps while only the configuration
\* is loaded.
PipelineIdle ==
  /\ agentName = "claude" /\ env = <<>> /\ flag = FALSE
  /\ toolFile = [present |-> FALSE, lines |-> <<>>]
  /\ miseFile = [present |-> FALSE, ok |-> TRUE, tools |-> <<>>]
  /\ disk = <<>>
  /\ collection = Nil /\ imageName = Nil /\ labels = Nil /\ agentMise = Nil
  /\ prev = <<>>
  /\ userTools = {} /\ queue = <<>> /\ seen = {} /\ result = <<>>
  /\ RecipeIdle /\ SplitIdle /\ OutputIdle /\ RunIdle /\ MoreIdle

InitConfig ==
  /\ layers \in { ls \in LayerSets :
                    /\ ls.xdgPath = "" => ls.xdg = FileMissing
                    /\ ls.configPath = "" => ls.explicit = FileMissing }
  /\ imgCfg = ZeroConfig
  /\ loadResult = [cfg |-> <<>>, err |-> FALSE]
  /\ applied = 0
  /\ pc = "load_default"
  /\ PipelineIdle

\* base, err := loadDefaultConfig(defaultConfigData)
LoadDefault ==
  /\ pc = "load_default"
  /\ imgCfg' = layers.default
  /\ pc' = "load_xdg"
  /\ UNCHANGED <<agentName, env, flag, toolFile, miseFile, disk, outputs, prev, walk, loader,
                 aptPackages, buildContext, splitter, build, run, more>>

\* A step of LoadMergedConfig that ends in r: the next position, or the
\* error returned.
LoadStep(r, next) ==
  /\ IF r.err
       THEN /\ pc' = "load_failed"
            /\ loadResult' = [cfg |-> <<>>, err |-> TRUE]
            /\ imgCfg' = imgCfg
       ELSE /\ pc' = next
            /\ loadResult' = loadResult
            /\ imgCfg' = r.cfg[1]
  /\ UNCHANGED <<agentName, env, flag, toolFile, miseFile, disk, outputs, prev, walk,
                 layers, applied, aptPackages, buildContext, splitter, build, run, more>>

\* The XDG configuration, when there is a path for it.
LoadXDG ==
  /\ pc = "load_xdg"
  /\ LoadStep(IF layers.xdgPath = "" THEN [cfg |-> <<imgCfg>>, err |-> FALSE]
              ELSE OptionalLayer(imgCfg, layers.xdg), "load_local")

\* The project-local configuration.
LoadLocal ==
  /\ pc = "load_local"
  /\ LoadStep(OptionalLayer(imgCfg, layers.local), "load_explicit")

\* The configuration of --config.
LoadExplicit ==
  /\ pc = "load_explicit"
  /\ LoadStep(ExplicitLayer(imgCfg, layers.configPath, layers.explicit), "apply")

\* base = applyImageCustomizations(base); return base, nil
ApplyImageCustomizations ==
  /\ pc = "apply"
  /\ imgCfg' = applyImageCustomizations(imgCfg)
  /\ applied' = applied + 1
  /\ loadResult' = [cfg |-> <<applyImageCustomizations(imgCfg)>>, err |-> FALSE]
  /\ pc' = "loaded"
  /\ UNCHANGED <<agentName, env, flag, toolFile, miseFile, disk, outputs, prev, walk, layers,
                 aptPackages, buildContext, splitter, build, run, more>>

NextConfig == LoadDefault \/ LoadXDG \/ LoadLocal \/ LoadExplicit \/ ApplyImageCustomizations

SpecConfig == InitConfig /\ [][NextConfig]_vars

\* ---------------------------------------------- properties of the layers

\* res has the keys of base and overlay, the entries of overlay, and the
\* entries of base under the keys overlay does not have.
PerKey(base, overlay, res) ==
  /\ DOMAIN res = DOMAIN base \cup DOMAIN overlay
  /\ \A k \in DOMAIN overlay : res[k] = overlay[k]
  /\ \A k \in DOMAIN base \ DOMAIN overlay : res[k] = base[k]

\* The step about to be taken merges a file that was found and parsed.
MergesXDG == pc = "load_xdg" /\ layers.xdgPath # "" /\ layers.xdg.state = "ok"

MergesLocal == pc = "load_local" /\ layers.local.state = "ok"

MergesExplicit ==
  pc = "load_explicit" /\ layers.configPath # "" /\ layers.explicit.state = "ok"

\* That file's configuration.
Overlay ==
  CASE MergesXDG -> layers.xdg.cfg
    [] MergesLocal -> layers.local.cfg
    [] MergesExplicit -> layers.explicit.cfg
    [] OTHER -> ZeroConfig

\* C12: each merge of a layer into the base merges the tools, agents and
\* mise.env maps per key: the keys of the layer get the layer's entries, the
\* keys only the base has keep the base's entries, and there is no other key.
C12_MapsMergedPerKey ==
  [][(MergesXDG \/ MergesLocal \/ MergesExplicit) =>
       /\ PerKey(imgCfg.Tools, Overlay.Tools, imgCfg'.Tools)
       /\ PerKey(imgCfg.Agents, Overlay.Agents, imgCfg'.Agents)
       /\ PerKey(imgCfg.Mise.Env, Overlay.Mise.Env, imgCfg'.Mise.Env)]_vars

\* The project-local file was merged over the default and an XDG file: node
\* and ruby_compile are as the local file has them, python as the default has.
C12_Witness ==
  /\ pc = "load_explicit"
  /\ layers.xdgPath # "" /\ layers.xdg.state = "ok" /\ layers.local.state = "ok"
  /\ S_ruby \in DOMAIN layers.xdg.cfg.Tools
  /\ S_node \in DOMAIN layers.local.cfg.Tools
  /\ S_python \notin DOMAIN layers.local.cfg.Tools
  /\ imgCfg.Tools[S_node] = layers.local.cfg.Tools[S_node]
  /\ imgCfg.Tools[S_node] # DefaultTools[S_node]
  /\ imgCfg.Tools[S_python] = DefaultTools[S_python]
  /\ imgCfg.Mise.Env["ruby_compile"] = "true"
  /\ "jobs" \in DOMAIN imgCfg.Mise.Env

\* The layers LoadMergedConfig merges, in order: the default and each file
\* that has a path, exists and parses.
PresentLayers ==
  <<layers.default>>
    \o (IF layers.xdgPath # "" /\ layers.xdg.state = "ok" THEN <<layers.xdg.cfg>> ELSE <<>>)
    \o (IF layers.local.state = "ok" THEN <<layers.local.cfg>> ELSE <<>>)
    \o (IF layers.configPath # "" /\ layers.explicit.state = "ok"
          THEN <<layers.explicit.cfg>> ELSE <<>>)

\* The customization lists of the first k present layers, one after another.
RECURSIVE Accumulated(_)
Accumulated(k) ==
  IF k = 0 THEN <<>>
  ELSE Accumulated(k - 1) \o PresentLayers[k].ImageCustomizations.Packages

\* C13: once the last layer is merged the customization list of the merged
\* configuration is the concatenation of the lists of the layers, in layer
\* order and in each layer's own order.
C13_CustomizationsAccumulate ==
  pc \in {"apply", "loaded"} =>
    imgCfg.ImageCustomizations.Packages = Accumulated(Len(PresentLayers))

\* Three files with customizations were merged.
C13_Witness ==
  /\ pc = "apply"
  /\ Len(PresentLayers) = 4
  /\ \A k \in 2..4 : PresentLayers[k].ImageCustomizations.Packages # <<>>
  /\ PresentLayers[2] # PresentLayers[3]
  /\ PresentLayers[3] # PresentLayers[4]

\* The package list the layer merge selects: that of the last of the first k
\* present layers that sets a non-empty image.packages.
RECURSIVE SelectedPackages(_)
SelectedPackages(k) ==
  IF k = 0 THEN <<>>
  ELSE IF PresentLayers[k].Image.Packages # <<>> THEN PresentLayers[k].Image.Packages
  ELSE SelectedPackages(k - 1)

\* The first k operations of ops applied to packages: an "add" puts the value
\* at the end, a "remove" leaves the packages other than the value, any other
\* operation leaves the list as it is.
RECURSIVE Folded(_, _, _)
Folded(packages, ops, k) ==
  IF k = 0 THEN packages
  ELSE LET before == Folded(packages, ops, k - 1) IN
    CASE ops[k].Op = "add" -> before \o <<ops[k].Value>>
      [] ops[k].Op = "remove" -> SelectSeq(before, LAMBDA p : p # ops[k].Value)
      [] OTHER -> before

\* C14: LoadMergedConfig applies the customizations once, after the last
\* layer is merged: none is applied before, and the package list it returns
\* is the accumulated operations applied in order to the list the merge
\* selected.
C14_CustomizationsAppliedOnceAtEnd ==
  /\ pc # "loaded" => applied = 0
  /\ pc = "loaded" =>
       /\ applied = 1
       /\ loadResult.cfg = <<imgCfg>>
       /\ imgCfg.Image.Packages =
            Folded(SelectedPackages(Len(PresentLayers)),
                   Accumulated(Len(PresentLayers)), Len(Accumulated(Len(PresentLayers))))

\* An XDG file adds vim, a later file replaces the package list, and vim is
\* in the list returned.
C14_Witness ==
  /\ pc = "loaded"
  /\ layers.xdgPath # "" /\ layers.xdg.state = "ok"
  /\ layers.xdg.cfg.ImageCustomizations.Packages = << [Op |-> "add", Value |-> S_vim] >>
  /\ layers.local.state = "ok"
  /\ layers.local.cfg.Image.Packages = <<S_git, S_curl>>
  /\ layers.configPath = ""
  /\ imgCfg.Image.Packages = <<S_git, S_curl, S_vim, S_buildEssential>>

\* The present layers merged into one another from the first, the first k.
RECURSIVE MergedUpTo(_)
MergedUpTo(k) ==
  IF k = 1 THEN PresentLayers[1]
  ELSE mergeConfigs(MergedUpTo(k - 1), PresentLayers[k])

\* A file that LoadMergedConfig reads cannot be read or parsed.
SomeFileBad ==
  \/ layers.xdgPath # "" /\ layers.xdg.state = "bad"
  \/ layers.local.state = "bad"
  \/ layers.configPath # "" /\ layers.explicit.state = "bad"

ExplicitMissing == layers.configPath # "" /\ layers.explicit.state = "missing"

\* C16: when LoadMergedConfig has returned, a --config path that names a
\* missing file gave an error and no configuration; otherwise, when no file
\* is unreadable, a missing XDG or project-local file was skipped: there is
\* no error and the configuration is the merge of the present layers, with
\* its customizations applied.
C16_ExplicitMissingFailsOthersSkipped ==
  pc \in {"loaded", "load_failed"} =>
    /\ ExplicitMissing => pc = "load_failed" /\ loadResult = [cfg |-> <<>>, err |-> TRUE]
    /\ (~ExplicitMissing /\ ~SomeFileBad) =>
         /\ pc = "loaded"
         /\ ~loadResult.err
         /\ loadResult.cfg = <<applyImageCustomizations(MergedUpTo(Len(PresentLayers)))>>

\* The XDG file is missing and was skipped, the project-local file was
\* merged, and the missing file of --config made the call fail.
C16_Witness ==
  /\ pc = "load_failed"
  /\ layers.xdgPath # "" /\ layers.xdg.state = "missing"
  /\ layers.local.state = "ok"
  /\ ExplicitMissing
  /\ imgCfg = mergeConfigs(layers.default, layers.local.cfg)
  /\ imgCfg # layers.default

\* ------------------------------------------- applyImageCustomizations alone

\* The most operations of a customization list.
MaxOps == 2

\* Operations: add, remove and an unknown name, on two packages.
CustomizationOps ==
  { [Op |-> o, Value |-> v] : o \in {"add", "remove", "replace"}, v \in {S_curl, S_vim} }

\* Merged configurations: package lists with and without repetition, and
\* every customization list of up to MaxOps operations.
InitCustomize ==
  /\ layers \in { [default |-> [DefaultLayer EXCEPT !.Image.Packages = p,
                                                     !.ImageCustomizations.Packages = ops],
                   xdgPath |-> "", xdg |-> FileMissing, local |-> FileMissing,
                   configPath |-> "", explicit |-> FileMissing] :
                    p \in {<<>>, <<S_curl>>, <<S_git, S_curl>>, <<S_curl, S_git, S_curl>>,
                           <<S_vim, S_curl, S_git>>},
                    ops \in SeqsUpTo(CustomizationOps, MaxOps) }
  /\ imgCfg = layers.default
  /\ loadResult = [cfg |-> <<>>, err |-> FALSE]
  /\ applied = 0
  /\ pc = "apply"
  /\ PipelineIdle

NextCustomize == ApplyImageCustomizations

SpecCustomize == InitCustomize /\ [][NextCustomize]_vars

\* The packages before and the operations.
PackagesBefore == layers.default.Image.Packages

Operations == layers.default.ImageCustomizations.Packages

\* C15: applyImageCustomizations folds the operations over the package list
\* in order: an add appends the value, a remove deletes the value and keeps
\* the others in order, a remove of an absent package or an operation of
\* unknown name changes nothing, and the operations after it are applied.
C15_CustomizationsFold ==
  pc = "loaded" =>
    /\ imgCfg.Image.Packages = Folded(PackagesBefore, Operations, Len(Operations))
    /\ imgCfg.ImageCustomizations.Packages = Operations
    /\ (\A i \in DOMAIN Operations :
          \/ Operations[i].Op \notin {"add", "remove"}
          \/ Operations[i].Op = "remove" /\ Operations[i].Value \notin Range(PackagesBefore)
                /\ \A j \in 1..(i - 1) : Operations[j].Value # Operations[i].Value)
         => imgCfg.Image.Packages = PackagesBefore

\* A remove of an absent package came before an add, and the add was applied.
C15_Witness ==
  /\ pc = "loaded"
  /\ PackagesBefore = <<S_git, S_curl>>
  /\ Operations = << [Op |-> "remove", Value |-> S_vim], [Op |-> "add", Value |-> S_vim] >>
  /\ imgCfg.Image.Packages = <<S_git, S_curl, S_vim>>


\* ------------------------------------------------- the build context (C17)

\* The project's mise.toml holds bytes that do not parse.
UserMiseUnparseable == miseFile.present /\ ~miseFile.ok

\* C17: when the user's non-empty mise.toml fails to parse,
\* buildAgentMiseConfig returns an error and no manifest bytes, and
\* makeBuildContext passes the error on without producing a build context,
\* whatever was collected and whichever agent runs; a manifest that parses
\* (or is absent) gives bytes and a context holding mise.agent.toml.
C17_ParseErrorStopsBuildContext ==
  pc = "done" =>
    IF UserMiseUnparseable
      THEN /\ agentMise.err
           /\ agentMise.data = <<>>
           /\ buildContext.err
           /\ buildContext.files = <<>>
      ELSE /\ ~agentMise.err
           /\ ~buildContext.err
           /\ \E i \in DOMAIN buildContext.files :
                buildContext.files[i] = "mise.agent.toml"

\* A run whose mise.toml did not parse, with tools collected from elsewhere.
C17_Witness ==
  /\ pc = "done"
  /\ UserMiseUnparseable
  /\ agentMise.err
  /\ buildContext.err
  /\ Len(collection.specs) >= 2

\* ------------------------------------------- the apt packages of the recipe

\* The loop body of ResolveAdditionalPackages that follows every depends edge.
PackagesLoopBodyAll(c, userToolSet, st) ==
  LET toolName == Head(st.queue)
      tool == ToolEntry(c, toolName)
      tail == Tail(st.queue)
  IN IF toolName \in st.seen THEN [st EXCEPT !.queue = tail]
     ELSE [queue |-> IF tool.Depends # <<>> THEN Append(tail, tool.Depends) ELSE tail,
           seen |-> st.seen \cup {toolName},
           packages |-> st.packages \o tool.AdditionalPackages]

\* One iteration of the loop of ResolveAdditionalPackages on (queue, seen,
\* packages): pop the head; skip it when seen; else record it, append its
\* additionalPackages and, when it has a depends edge and is a user tool, push
\* the edge's target.
PackagesLoopBody(c, userToolSet, st) ==
  LET toolName == Head(st.queue)
      tool == ToolEntry(c, toolName)
      tail == Tail(st.queue)
  IN IF toolName \in st.seen THEN [st EXCEPT !.queue = tail]
     ELSE [queue |-> IF tool.Depends # <<>> /\ toolName \in userToolSet
                       THEN Append(tail, tool.Depends)
                       ELSE tail,
           seen |-> st.seen \cup {toolName},
           packages |-> st.packages \o tool.AdditionalPackages]

RECURSIVE PackagesRun(_, _, _)
PackagesRun(c, userToolSet, st) ==
  IF st.queue = <<>> THEN st.packages
  ELSE PackagesRun(c, userToolSet, PackagesLoopBody(c, userToolSet, st))

\* ImageConfig.ResolveAdditionalPackages(agentName, userTools): nil for an
\* unknown agent.
ResolveAdditionalPackages(c, agent, userToolSet) ==
  IF agent \notin DOMAIN c.Agents THEN <<>>
  ELSE PackagesRun(c, userToolSet,
         [queue |-> c.Agents[agent].Depends, seen |-> {}, packages |-> <<>>])

\* The loop of dedupeStrings: a value is appended unless it was seen.
RECURSIVE DedupeStringsLoop(_, _, _)
DedupeStringsLoop(values, seenValues, out) ==
  IF values = <<>> THEN out
  ELSE IF Head(values) \in seenValues
         THEN DedupeStringsLoop(Tail(values), seenValues, out)
         ELSE DedupeStringsLoop(Tail(values), seenValues \cup {Head(values)},
                                Append(out, Head(values)))

dedupeStrings(values) == DedupeStringsLoop(values, {}, <<>>)

\* The package list with only the configured packages deduplicated.
RecipePackagesConfiguredOnly(c, agent, userToolSet) ==
  dedupeStrings(c.Image.Packages) \o ResolveAdditionalPackages(c, agent, userToolSet)

\* buildDockerfile, the packages of the apt-get install line: the configured
\* packages, then the additional packages of the agent's tools, deduplicated.
RecipePackages(c, agent, userToolSet) ==
  dedupeStrings(c.Image.Packages \o ResolveAdditionalPackages(c, agent, userToolSet))

\* Tools whose additional packages repeat each other and the configured ones.
RecipeTools ==
  { DefaultTools,
    (S_node :> [Version |-> S_latest, Depends |-> S_python,
                AdditionalPackages |-> <<S_libatomic1, S_git>>])
    @@ (S_python :> [Version |-> S_latest, Depends |-> <<>>,
                     AdditionalPackages |-> <<S_curl, S_libatomic1, S_buildEssential>>]) }

\* The default agents and one that depends on python before node.
RecipeAgents ==
  DefaultAgents @@ ("both" :> [PackageName |-> S_pkgGemini, Depends |-> <<S_python, S_node>>])

\* Merged configurations whose customizations are still to be applied, an
\* agent that may be unknown, and the tools the user specified.
InitRecipe ==
  /\ layers \in { [default |-> [DefaultLayer EXCEPT !.Tools = t,
                                                     !.Agents = RecipeAgents,
                                                     !.Image.Packages = p,
                                                     !.ImageCustomizations.Packages = ops],
                   xdgPath |-> "", xdg |-> FileMissing, local |-> FileMissing,
                   configPath |-> "", explicit |-> FileMissing] :
                    t \in RecipeTools,
                    p \in {<<>>, <<S_curl, S_git>>, <<S_curl, S_git, S_curl>>,
                           DefaultLayer.Image.Packages},
                    ops \in SeqsUpTo(CustomizationOps, MaxOps) }
  /\ imgCfg = layers.default
  /\ loadResult = [cfg |-> <<>>, err |-> FALSE]
  /\ applied = 0
  /\ pc = "apply"
  /\ agentName \in {"claude", "both", "ghost"}
  /\ userTools \in SUBSET {S_node}
  /\ env = <<>> /\ flag = FALSE
  /\ toolFile = [present |-> FALSE, lines |-> <<>>]
  /\ miseFile = [present |-> FALSE, ok |-> TRUE, tools |-> <<>>]
  /\ disk = <<>>
  /\ collection = Nil /\ imageName = Nil /\ labels = Nil /\ agentMise = Nil
  /\ prev = <<>>
  /\ queue = <<>> /\ seen = {} /\ result = <<>>
  /\ RecipeIdle /\ SplitIdle /\ OutputIdle /\ RunIdle /\ MoreIdle

\* buildDockerfile on the loaded configuration: the apt-get install line.
BuildDockerfile ==
  /\ pc = "loaded"
  /\ aptPackages' = RecipePackages(imgCfg, agentName, userTools)
  /\ pc' = "recipe"
  /\ UNCHANGED <<inputs, outputs, prev, walk, loader, buildContext, splitter, build, run, more>>

NextRecipe == ApplyImageCustomizations \/ BuildDockerfile

SpecRecipe == InitRecipe /\ [][NextRecipe]_vars

\* The position of the first occurrence of v in s.
FirstIndex(s, v) == CHOOSE i \in DOMAIN s : s[i] = v /\ \A j \in 1..(i - 1) : s[j] # v

\* The additional packages of the tools the agent resolves to, tool by tool.
RECURSIVE PackagesOf(_, _)
PackagesOf(c, tools) ==
  IF tools = <<>> THEN <<>>
  ELSE ToolEntry(c, Head(tools).name).AdditionalPackages \o PackagesOf(c, Tail(tools))

\* Everything the recipe was asked to install, repetitions included.
Requested ==
  imgCfg.Image.Packages \o PackagesOf(imgCfg, ResolveToolDeps(imgCfg, agentName, userTools))

\* C18: the apt package list of the recipe holds every name at most once:
\* it is the configured image packages (after customizations) followed by the
\* additional packages of the agent's resolved tools, each name kept at its
\* first occurrence; so a package added by a customization although it was
\* already present occurs exactly once.
C18_AptPackagesDeduplicated ==
  pc = "recipe" =>
    /\ Range(aptPackages) = Range(Requested)
    /\ \A i, j \in DOMAIN aptPackages :
         i < j => /\ aptPackages[i] # aptPackages[j]
                  /\ FirstIndex(Requested, aptPackages[i]) < FirstIndex(Requested, aptPackages[j])
    /\ \A i \in DOMAIN Operations :
         Operations[i].Op = "add" /\ Operations[i].Value \in Range(imgCfg.Image.Packages)
           => Cardinality({k \in DOMAIN aptPackages : aptPackages[k] = Operations[i].Value}) = 1

\* An add of a package that was already configured left it twice in the
\* configured list, a tool asks for a configured package again, and the recipe
\* names each once.
C18_Witness ==
  /\ pc = "recipe"
  /\ \E i \in DOMAIN Operations :
       /\ Operations[i].Op = "add"
       /\ Operations[i].Value \in Range(PackagesBefore)
       /\ Cardinality({k \in DOMAIN imgCfg.Image.Packages :
                         imgCfg.Image.Packages[k] = Operations[i].Value}) >= 2
       /\ Cardinality({k \in DOMAIN aptPackages : aptPackages[k] = Operations[i].Value}) = 1
  /\ \E v \in Range(imgCfg.Image.Packages) :
       v \in Range(ResolveAdditionalPackages(imgCfg, agentName, userTools))
  /\ Len(aptPackages) < Len(Requested)

\* --------------------------------------------------- splitToolVersion alone

\* The longest token built from the alphabet.
MaxTokenLen == 4

S_at == <<"@">>

S_scopedPkg == <<"@","o","r","g","/","p","k","g">>

S_npmScopedPkg == <<"n","p","m",":","@","m","y","-","o","r","g","/","p","k","g">>

S_v123 == <<"1",".","2",".","3">>

S_v200 == <<"2",".","0",".","0">>

\* Tokens: every string of up to MaxTokenLen characters over a letter, a
\* digit and the punctuation of tool names, and the tokens of the tests.
Tokens ==
  SeqsUpTo({"n", "1", "@", ":", "/"}, MaxTokenLen)
    \cup { S_node, S_node \o S_at, S_node \o S_at \o S_v20,
           S_scopedPkg, S_scopedPkg \o S_at \o S_v200, S_scopedPkg \o S_at,
           S_npmScopedPkg, S_npmScopedPkg \o S_at \o S_v123, S_npmScopedPkg \o S_at,
           S_pkgClaude \o S_at \o S_latest, S_python \o S_at \o S_v39 }

\* Nothing runs but splitToolVersion, on one token.
InitSplit ==
  /\ imgCfg = DefaultConfig
  /\ agentName = "claude" /\ env = <<>> /\ flag = FALSE
  /\ toolFile = [present |-> FALSE, lines |-> <<>>]
  /\ miseFile = [present |-> FALSE, ok |-> TRUE, tools |-> <<>>]
  /\ disk = <<>>
  /\ collection = Nil /\ imageName = Nil /\ labels = Nil /\ agentMise = Nil
  /\ prev = <<>>
  /\ userTools = {} /\ queue = <<>> /\ seen = {} /\ result = <<>>
  /\ LoaderIdle /\ RecipeIdle /\ OutputIdle /\ RunIdle /\ MoreIdle
  /\ token \in Tokens
  /\ split = <<>>
  /\ pc = "split"

SplitToolVersion ==
  /\ pc = "split"
  /\ split' = splitToolVersion(token)
  /\ pc' = "split_done"
  /\ UNCHANGED <<inputs, outputs, prev, walk, loader, aptPackages, buildContext, token, build, run, more>>

NextSplit == SplitToolVersion

SpecSplit == InitSplit /\ [][NextSplit]_vars

\* The "@" at position i of the token starts the token or an npm scope.
StartsNameOrScope(i) == i = 1 \/ token[i - 1] = ":"

HasAt(s) == \E i \in DOMAIN s : s[i] = "@"

\* C19: splitToolVersion never returns an empty version; a token without "@"
\* or ending in "@" gets version "latest"; an "@" that starts the token or an
\* npm scope stays in the name; every token name@version whose version is
\* non-empty and without "@", and whose "@" does not start the token or a
\* scope, splits into exactly (name, version), and name@ into (name, latest);
\* node, node@ and @org/pkg give latest, npm:@my-org/pkg@1.2.3 its version.
C19_SplitToolVersion ==
  pc = "split_done" =>
    /\ split[2] # <<>>
    /\ (~HasAt(token) => split = <<token, S_latest>>)
    /\ (token # <<>> /\ token[Len(token)] = "@" => split[2] = S_latest)
    /\ \A i \in DOMAIN token :
         token[i] = "@" /\ ~HasAt(SubSeq(token, i + 1, Len(token))) =>
           IF StartsNameOrScope(i)
             THEN split = <<token, S_latest>>
             ELSE split = <<SubSeq(token, 1, i - 1),
                            IF i = Len(token) THEN S_latest
                            ELSE SubSeq(token, i + 1, Len(token))>>
    /\ (token = S_node => split = <<S_node, S_latest>>)
    /\ (token = S_node \o S_at => split = <<S_node, S_latest>>)
    /\ (token = S_scopedPkg => split = <<S_scopedPkg, S_latest>>)
    /\ (token = S_scopedPkg \o S_at \o S_v200 => split = <<S_scopedPkg, S_v200>>)
    /\ (token = S_npmScopedPkg => split = <<S_npmScopedPkg, S_latest>>)
    /\ (token = S_npmScopedPkg \o S_at \o S_v123 => split = <<S_npmScopedPkg, S_v123>>)

\* A scoped npm package with a version: the scope's "@" stayed in the name.
C19_Witness ==
  /\ pc = "split_done"
  /\ token = S_npmScopedPkg \o S_at \o S_v123
  /\ split = <<S_npmScopedPkg, S_v123>>

\* ------------------------------------------------------- handleBuildOutput

\* The most lines of a build response.
MaxEvents == 6

\* The stream lines handleBuildOutput keeps for the error.
maxLines == 3

\* A line that is a JSON message with a stream text and perhaps an error.
Message(stream, error) == [line |-> "json", stream |-> stream, error |-> error]

\* The lines of a build response: output lines, a white-space line, an error,
\* an error that carries stream text, a line that is not JSON, and a line the
\* scanner cannot deliver (over-long, or the reader fails).
BuildLines ==
  { Message(<<"a", "\n">>, FALSE),
    Message(<<" ", "b", "\n">>, FALSE),
    Message(<<" ", "\t", "\n">>, FALSE),
    Message(<<>>, TRUE),
    Message(<<"c", "\n">>, TRUE),
    [line |-> "garbage", stream |-> <<>>, error |-> FALSE],
    [line |-> "unreadable", stream |-> <<>>, error |-> FALSE] }

\* The loop body of handleBuildOutput on a full window that drops the new
\* line instead of the oldest.
TrackLineKeepOldest(kept, stream) ==
  IF stream = <<>> \/ TrimSpace(stream) = <<>> THEN kept
  ELSE IF Len(kept) >= maxLines THEN kept
  ELSE Append(kept, TrimSpace(stream))

\* The loop body of handleBuildOutput on the stream text of a message: a text
\* that is not white space is appended, the oldest line shifted out when
\* maxLines are kept.
TrackLine(kept, stream) ==
  IF stream = <<>> \/ TrimSpace(stream) = <<>> THEN kept
  ELSE IF Len(kept) >= maxLines
    THEN [i \in 1..Len(kept) |-> IF i = maxLines THEN TrimSpace(stream) ELSE kept[i + 1]]
  ELSE Append(kept, TrimSpace(stream))

\* The build of an image starts: nothing else runs.
InitOutput ==
  /\ imgCfg = DefaultConfig
  /\ agentName = "claude" /\ env = <<>> /\ flag = FALSE
  /\ toolFile = [present |-> FALSE, lines |-> <<>>]
  /\ miseFile = [present |-> FALSE, ok |-> TRUE, tools |-> <<>>]
  /\ disk = <<>>
  /\ collection = Nil /\ labels = Nil /\ agentMise = Nil
  /\ imageName = imageRepository \o <<":">> \o S_latest
  /\ prev = <<>>
  /\ userTools = {} /\ queue = <<>> /\ seen = {} /\ result = <<>>
  /\ LoaderIdle /\ RecipeIdle /\ SplitIdle /\ RunIdle /\ MoreIdle
  /\ events \in SeqsUpTo(BuildLines, MaxEvents)
  /\ pos = 1
  /\ lastLines = <<>>
  /\ buildErr = [kind |-> "none", image |-> <<>>, context |-> <<>>]
  /\ pc = "scan"

OutputFrame ==
  UNCHANGED <<inputs, outputs, prev, walk, loader, aptPackages, buildContext, splitter, events, run, more>>

\* scanner.Scan delivers a line without an error: a line that is not JSON is
\* skipped, the stream text of a message is tracked.
ScanLine ==
  /\ pc = "scan"
  /\ pos <= Len(events)
  /\ events[pos].line # "unreadable"
  /\ ~events[pos].error
  /\ lastLines' = IF events[pos].line = "json"
                    THEN TrackLine(lastLines, events[pos].stream)
                    ELSE lastLines
  /\ pos' = pos + 1
  /\ UNCHANGED <<pc, buildErr>>
  /\ OutputFrame

\* scanner.Scan delivers a message with an error: its stream text is tracked,
\* then the error naming the image is returned.
ScanError ==
  /\ pc = "scan"
  /\ pos <= Len(events)
  /\ events[pos].line = "json"
  /\ events[pos].error
  /\ lastLines' = TrackLine(lastLines, events[pos].stream)
  /\ buildErr' = [kind |-> "build", image |-> imageName,
                  context |-> Join(TrackLine(lastLines, events[pos].stream), <<"\n">>)]
  /\ pos' = pos + 1
  /\ pc' = "returned"
  /\ OutputFrame

\* scanner.Scan fails: the error of the scanner is returned.
ScanFailure ==
  /\ pc = "scan"
  /\ pos <= Len(events)
  /\ events[pos].line = "unreadable"
  /\ buildErr' = [kind |-> "read", image |-> <<>>, context |-> <<>>]
  /\ pc' = "returned"
  /\ UNCHANGED <<pos, lastLines>>
  /\ OutputFrame

\* scanner.Scan reaches the end of the response: nil is returned.
ScanEnd ==
  /\ pc = "scan"
  /\ pos > Len(events)
  /\ pc' = "returned"
  /\ UNCHANGED <<pos, lastLines, buildErr>>
  /\ OutputFrame

NextOutput == ScanLine \/ ScanError \/ ScanFailure \/ ScanEnd

SpecOutput == InitOutput /\ [][NextOutput]_vars

\* The first line among the first k that carries an error, 0 when none does.
FirstError ==
  IF \E i \in DOMAIN events : events[i].error
    THEN CHOOSE i \in DOMAIN events : events[i].error /\ \A j \in 1..(i - 1) : ~events[j].error
    ELSE 0

\* The first line the scanner cannot deliver, 0 when there is none.
FirstUnreadable ==
  IF \E i \in DOMAIN events : events[i].line = "unreadable"
    THEN CHOOSE i \in DOMAIN events :
           events[i].line = "unreadable" /\ \A j \in 1..(i - 1) : events[j].line # "unreadable"
    ELSE 0

\* The stream texts of the first k lines that are not white space, trimmed.
RECURSIVE StreamLines(_)
StreamLines(k) ==
  IF k = 0 THEN <<>>
  ELSE IF \E i \in DOMAIN events[k].stream : events[k].stream[i] \notin WhiteSpace
    THEN Append(StreamLines(k - 1), TrimSpace(events[k].stream))
    ELSE StreamLines(k - 1)

\* The last n elements of s, all of s when it is shorter.
LastN(s, n) == IF Len(s) <= n THEN s ELSE SubSeq(s, Len(s) - n + 1, Len(s))

\* The error handleBuildOutput returns for an error at line k.
ErrorAt(k) ==
  [kind |-> "build", image |-> imageName,
   context |-> Join(LastN(StreamLines(k), 3), <<"\n">>)]

NoError == [kind |-> "none", image |-> <<>>, context |-> <<>>]

\* C20 as stated: the response is read in order up to the first line that
\* carries an error; the error returned names the image and holds the last
\* stream lines that are not white space, at most three, in their order;
\* nothing after the error is read; a response without an error is read to
\* its end and no error is returned.
C20_StopsAtFirstError ==
  pc = "returned" =>
    IF FirstError = 0
      THEN pos = Len(events) + 1 /\ buildErr = NoError
      ELSE pos = FirstError + 1 /\ buildErr = ErrorAt(FirstError)

\* C20: the same, as long as the scanner delivers the lines: at the first
\* line it cannot deliver (over-long, or the reader fails) handleBuildOutput
\* stops and returns the read error, which names no image, whether or not an
\* error line follows. While it reads, the kept lines are the last three
\* stream lines read that are not white space.
C20_StopsAtFirstErrorOrReadFailure ==
  /\ Len(lastLines) <= maxLines
  /\ pc = "scan" =>
       /\ lastLines = LastN(StreamLines(pos - 1), 3)
       /\ \A i \in 1..(pos - 1) : ~events[i].error /\ events[i].line # "unreadable"
       /\ buildErr = NoError
  /\ pc = "returned" =>
       IF FirstUnreadable # 0 /\ (FirstError = 0 \/ FirstUnreadable < FirstError)
         THEN /\ pos = FirstUnreadable
              /\ buildErr = [kind |-> "read", image |-> <<>>, context |-> <<>>]
       ELSE IF FirstError = 0
         THEN pos = Len(events) + 1 /\ buildErr = NoError
       ELSE pos = FirstError + 1 /\ buildErr = ErrorAt(FirstError)

\* Four stream lines, white space among them, then an error and more lines:
\* the oldest line was rotated out and the lines after the error not read.
C20_Witness ==
  /\ pc = "returned"
  /\ buildErr.kind = "build"
  /\ Len(StreamLines(FirstError)) > maxLines
  /\ buildErr.context = <<"b", "\n", "a", "\n", "b">>
  /\ FirstError < Len(events)
  /\ pos = FirstError + 1

\* ---------------------------------------------------------------------- Run

\* needBuild when only a forced rebuild builds.
needBuildOnlyForced(exists, rebuild) == rebuild

\* needBuild := !imageExists(ctx, cli, imageName) || cfg.Rebuild
needBuild(exists, rebuild) == ~exists \/ rebuild

\* Build responses: empty, output only, an error after output, an error with
\* output after it, and a line the scanner cannot deliver.
RunResponses ==
  { <<>>,
    << Message(<<"a", "\n">>, FALSE) >>,
    << Message(<<"a", "\n">>, FALSE), Message(<<" ", "b", "\n">>, FALSE) >>,
    << Message(<<"a", "\n">>, FALSE), Message(<<>>, TRUE) >>,
    << Message(<<>>, TRUE), Message(<<"a", "\n">>, FALSE) >>,
    << [line |-> "unreadable", stream |-> <<>>, error |-> FALSE] >> }

\* Run is called for a known or unknown agent, with any flags, in a project
\* with or without a mise.toml, against a runtime that may hold the image,
\* refuse the client or refuse the build.
InitMain ==
  /\ imgCfg = DefaultConfig
  /\ agentName \in {"claude", "ghost"}
  /\ env = <<>> /\ flag = FALSE
  /\ toolFile = [present |-> FALSE, lines |-> <<>>]
  /\ miseFile \in { [present |-> FALSE, ok |-> TRUE, tools |-> <<>>],
                    [present |-> TRUE, ok |-> FALSE, tools |-> <<>>],
                    [present |-> TRUE, ok |-> TRUE, tools |-> (S_node :> MiseString(S_v16))] }
  /\ disk = <<>>
  /\ collection = Nil /\ imageName = Nil /\ labels = Nil /\ agentMise = Nil
  /\ prev = <<>>
  /\ userTools = {} /\ queue = <<>> /\ seen = {} /\ result = <<>>
  /\ LoaderIdle /\ RecipeIdle /\ SplitIdle /\ MoreIdle
  /\ events \in RunResponses
  /\ pos = 1
  /\ lastLines = <<>>
  /\ buildErr = [kind |-> "none", image |-> <<>>, context |-> <<>>]
  /\ runCfg \in [DockerfileOnly : BOOLEAN, MiseFileOnly : BOOLEAN, Rebuild : BOOLEAN]
  /\ daemon \in [client : BOOLEAN, hasImage : BOOLEAN, builds : BOOLEAN]
  /\ calls = <<>>
  /\ runErr = ""
  /\ pc = "run"

MainFrame ==
  UNCHANGED <<inputs, prev, walk, loader, aptPackages, splitter, build, runCfg, daemon, more>>

\* Run up to collectToolSpecs: an unknown agent is an error.
RunCollect ==
  /\ pc = "run"
  /\ IF agentName \notin DOMAIN imgCfg.Agents
       THEN /\ runErr' = "unknown agent"
            /\ pc' = "exit"
            /\ UNCHANGED collection
       ELSE /\ \E miseOrder \in Perms(UserMiseKeys(miseFile)),
                  idiomaticOrder \in Perms(FoundTools(disk)) :
                 collection' = collectToolSpecs(toolFile, miseFile, spec, imgCfg, agentName,
                                                env, flag, disk, miseOrder, idiomaticOrder)
            /\ pc' = "flags"
            /\ UNCHANGED runErr
  /\ UNCHANGED <<imageName, labels, agentMise, buildContext, calls>>
  /\ MainFrame

\* cfg.DockerfileOnly: the recipe is printed and Run returns.
RunDockerfileOnly ==
  /\ pc = "flags"
  /\ runCfg.DockerfileOnly
  /\ calls' = Append(calls, "print Dockerfile")
  /\ pc' = "exit"
  /\ UNCHANGED <<outputs, buildContext, runErr>>
  /\ MainFrame

\* cfg.MiseFileOnly: mise.agent.toml is printed, unless it cannot be built.
RunMiseFileOnly ==
  /\ pc = "flags"
  /\ ~runCfg.DockerfileOnly
  /\ runCfg.MiseFileOnly
  /\ agentMise' = buildAgentMiseConfig(miseFile, collection, spec)
  /\ IF buildAgentMiseConfig(miseFile, collection, spec).err
       THEN runErr' = "failed to build mise.agent.toml" /\ UNCHANGED calls
       ELSE calls' = Append(calls, "print mise.agent.toml") /\ UNCHANGED runErr
  /\ pc' = "exit"
  /\ UNCHANGED <<collection, imageName, labels, buildContext>>
  /\ MainFrame

\* imageName := buildImageName(collection.specs), then the client is made.
RunNewClient ==
  /\ pc = "flags"
  /\ ~runCfg.DockerfileOnly
  /\ ~runCfg.MiseFileOnly
  /\ imageName' = buildImageName(collection.specs)
  /\ IF daemon.client
       THEN pc' = "inspect" /\ UNCHANGED runErr
       ELSE pc' = "exit" /\ runErr' = "failed to connect to docker daemon"
  /\ UNCHANGED <<collection, labels, agentMise, buildContext, calls>>
  /\ MainFrame

\* imageExists asks the runtime for the image; needBuild is decided.
RunImageExists ==
  /\ pc = "inspect"
  /\ calls' = Append(calls, "ImageInspect")
  /\ pc' = IF needBuild(daemon.hasImage, runCfg.Rebuild) THEN "context" ELSE "print"
  /\ UNCHANGED <<outputs, buildContext, runErr>>
  /\ MainFrame

\* makeBuildContext: its error ends Run.
RunMakeBuildContext ==
  /\ pc = "context"
  /\ buildContext' = makeBuildContext(toolFile, miseFile, collection, spec)
  /\ IF makeBuildContext(toolFile, miseFile, collection, spec).err
       THEN pc' = "exit" /\ runErr' = "failed to prepare build context"
       ELSE pc' = "build" /\ UNCHANGED runErr
  /\ UNCHANGED <<outputs, calls>>
  /\ MainFrame

\* cli.ImageBuild: refused, or its response is handed to handleBuildOutput.
RunImageBuild ==
  /\ pc = "build"
  /\ calls' = Append(calls, "ImageBuild")
  /\ IF daemon.builds
       THEN pc' = "scan" /\ UNCHANGED runErr
       ELSE pc' = "exit" /\ runErr' = "failed to build image"
  /\ UNCHANGED <<outputs, buildContext>>
  /\ MainFrame

\* handleBuildOutput returned: its error ends Run.
RunBuildReturned ==
  /\ pc = "returned"
  /\ IF buildErr.kind = "none"
       THEN pc' = "print" /\ UNCHANGED runErr
       ELSE pc' = "exit" /\ runErr' = "build failed"
  /\ UNCHANGED <<outputs, buildContext, calls>>
  /\ MainFrame

\* The docker run command is printed.
RunPrintCommand ==
  /\ pc = "print"
  /\ calls' = Append(calls, "print docker run")
  /\ pc' = "exit"
  /\ UNCHANGED <<outputs, buildContext, runErr>>
  /\ MainFrame

NextMain ==
  \/ RunCollect \/ RunDockerfileOnly \/ RunMiseFileOnly \/ RunNewClient
  \/ RunImageExists \/ RunMakeBuildContext \/ RunImageBuild
  \/ ScanLine \/ ScanError \/ ScanFailure \/ ScanEnd
  \/ RunBuildReturned \/ RunPrintCommand

SpecMain == InitMain /\ [][NextMain]_vars

Called(what) == \E i \in DOMAIN calls : calls[i] = what

ArtifactOnly == runCfg.DockerfileOnly \/ runCfg.MiseFileOnly

\* The build response was read to its end and held no error.
BuildCompleted ==
  /\ Called("ImageBuild")
  /\ daemon.builds
  /\ buildErr.kind = "none"
  /\ pos = Len(events) + 1
  /\ \A i \in DOMAIN events : ~events[i].error

\* C21: Run asks the runtime to build only when the image is missing or a
\* rebuild is forced, and a Run that returns without error has built exactly
\* then; the docker run command is printed only after a required build was
\* read to its end without an error event; with the dockerfile-only or the
\* mise-file-only flag Run never asks the runtime anything, never builds and
\* never prints the run command, and when it returns without error it has
\* printed the one artifact.
C21_BuildIffNeededThenPrint ==
  /\ Called("ImageBuild") =>
       /\ ~daemon.hasImage \/ runCfg.Rebuild
       /\ ~ArtifactOnly
       /\ calls[Len(calls)] = "ImageBuild" \/ calls[Len(calls) - 1] = "ImageBuild"
  /\ pc = "exit" /\ runErr = "" /\ ~ArtifactOnly =>
       (Called("ImageBuild") <=> ~daemon.hasImage \/ runCfg.Rebuild)
  /\ Called("print docker run") =>
       /\ ~ArtifactOnly
       /\ calls[Len(calls)] = "print docker run"
       /\ (~daemon.hasImage \/ runCfg.Rebuild => BuildCompleted)
       /\ (daemon.hasImage /\ ~runCfg.Rebuild => calls = <<"ImageInspect", "print docker run">>)
  /\ ArtifactOnly =>
       /\ calls \in {<<>>, <<"print Dockerfile">>, <<"print mise.agent.toml">>}
       /\ pc \in {"run", "flags", "exit"}
       /\ imageName = Nil
       /\ (pc = "exit" /\ runErr = "" =>
             calls = IF runCfg.DockerfileOnly THEN <<"print Dockerfile">>
                     ELSE <<"print mise.agent.toml">>)

\* A forced rebuild of an image that exists, read to its end, then the
\* command.
C21_Witness ==
  /\ pc = "exit"
  /\ daemon.hasImage /\ runCfg.Rebuild
  /\ calls = <<"ImageInspect", "ImageBuild", "print docker run">>
  /\ Len(events) = 2

\* ------------------------------------------------- the order of the walk

\* C22 as stated: ResolveToolDeps returns dependencies first: when a tool of
\* the result has a depends edge to another tool of the result, the other
\* tool stands before it.
C22_DependenciesFirst ==
  pc = "deps_done" =>
    \A i, j \in DOMAIN result :
      (result[i].name # result[j].name /\ DependsOf(result[i].name) = result[j].name)
        => j < i

\* --------------------------------------------------- the two walks, stepwise

\* The configurations of the walk with additional packages: node and python
\* both ask for git.
WalkConfigs ==
  { [c EXCEPT !.Tools = [t \in DepTools |->
        [c.Tools[t] EXCEPT !.AdditionalPackages =
           IF t = S_node THEN <<S_libatomic1, S_git>>
           ELSE IF t = S_python THEN <<S_git>> ELSE <<>>]]] : c \in DepConfigs }

InitWalks ==
  /\ imgCfg \in WalkConfigs \cup {DefaultConfig}
  /\ agentName \in {"a", "dup", "claude"}
  /\ userTools \in SUBSET {S_node, S_python, S_ruby}
  /\ pc = "deps_start"
  /\ queue = <<>> /\ seen = {} /\ result = <<>>
  /\ env = <<>> /\ flag = FALSE
  /\ toolFile = [present |-> FALSE, lines |-> <<>>]
  /\ miseFile = [present |-> FALSE, ok |-> TRUE, tools |-> <<>>]
  /\ disk = <<>>
  /\ collection = Nil /\ imageName = Nil /\ labels = Nil /\ agentMise = Nil
  /\ prev = <<>>
  /\ RestIdle

WalkFrame ==
  UNCHANGED <<inputs, outputs, prev, walk, loader, aptPackages, buildContext, splitter, build,
              run, sanitizer, dockerfile, aliasing>>

\* ResolveAdditionalPackages is called after ResolveToolDeps returned: an
\* unknown agent returns nil, else its depends list is copied into the queue.
ResolvePackagesStart ==
  /\ pc = "deps_done"
  /\ IF agentName \notin DOMAIN imgCfg.Agents
       THEN pc' = "pkgs_done" /\ pkgQueue' = pkgQueue
       ELSE pc' = "pkgs_loop" /\ pkgQueue' = imgCfg.Agents[agentName].Depends
  /\ UNCHANGED <<pkgSeen, pkgResult, pkgVisited>>
  /\ WalkFrame

\* One iteration of its loop; the tools it marks as seen are recorded in order.
ResolvePackagesLoop ==
  /\ pc = "pkgs_loop"
  /\ pkgQueue # <<>>
  /\ LET st == PackagesLoopBody(imgCfg, userTools,
                 [queue |-> pkgQueue, seen |-> pkgSeen, packages |-> pkgResult])
     IN pkgQueue' = st.queue /\ pkgSeen' = st.seen /\ pkgResult' = st.packages
  /\ pkgVisited' = IF Head(pkgQueue) \in pkgSeen THEN pkgVisited
                   ELSE Append(pkgVisited, Head(pkgQueue))
  /\ UNCHANGED pc
  /\ WalkFrame

\* The queue is empty: the packages are returned.
ResolvePackagesReturn ==
  /\ pc = "pkgs_loop"
  /\ pkgQueue = <<>>
  /\ pc' = "pkgs_done"
  /\ UNCHANGED pkgWalk
  /\ WalkFrame

NextWalks ==
  \/ ResolveToolDepsStart \/ ResolveToolDepsLoop \/ ResolveToolDepsReturn
  \/ ResolvePackagesStart \/ ResolvePackagesLoop \/ ResolvePackagesReturn

SpecWalks == InitWalks /\ [][NextWalks]_vars

\* Both functions run on: a loop that can take an iteration takes it.
LiveWalks == SpecWalks /\ WF_vars(NextWalks)

\* No name twice in a sequence.
NoRepeat(s) == \A i, j \in DOMAIN s : i # j => s[i] # s[j]

\* C23: ResolveToolDeps and ResolveAdditionalPackages terminate for every
\* configuration and userTools set (self-dependency, cycles among user tools,
\* repeated names in the agent's depends list, an edge to a tool without
\* entry), and all along each tool is visited at most once and stands at most
\* once in the result of ResolveToolDeps.
C23_WalksTerminate ==
  /\ <>(pc = "pkgs_done")
  /\ [](/\ NoRepeat([i \in DOMAIN result |-> result[i].name])
        /\ NoRepeat(pkgVisited)
        /\ Cardinality(seen) = Len(result)
        /\ Cardinality(pkgSeen) = Len(pkgVisited))

\* Both walks ended on a cycle of user tools, reached through a depends list
\* that repeats a name.
C23_Witness ==
  /\ pc = "pkgs_done"
  /\ agentName = "dup"
  /\ DependsOf(S_node) = S_python /\ DependsOf(S_python) = S_ruby /\ DependsOf(S_ruby) = S_node
  /\ userTools = {S_node, S_python, S_ruby}
  /\ Len(result) = 3 /\ Len(pkgVisited) = 3

\* The additional packages of the tools named, tool by tool.
RECURSIVE PackagesOfNames(_)
PackagesOfNames(names) ==
  IF names = <<>> THEN <<>>
  ELSE ToolEntry(imgCfg, Head(names)).AdditionalPackages \o PackagesOfNames(Tail(names))

\* C24: ResolveAdditionalPackages makes the walk of ResolveToolDeps: the tools
\* it visits, in order, are the names ResolveToolDeps returned, and its result
\* is the concatenation of their additionalPackages in that order, repeated
\* packages included; both return nothing for an unknown agent.
C24_SameWalk ==
  pc = "pkgs_done" =>
    /\ pkgVisited = [i \in DOMAIN result |-> result[i].name]
    /\ pkgResult = PackagesOfNames(pkgVisited)
    /\ pkgResult = ResolveAdditionalPackages(imgCfg, agentName, userTools)
    /\ [i \in DOMAIN result |-> result[i]] = ResolveToolDeps(imgCfg, agentName, userTools)
    /\ (agentName \notin DOMAIN imgCfg.Agents => result = <<>> /\ pkgResult = <<>>)

\* A walk through node and python, both asking for git: git is collected
\* twice; python's edge was not followed.
C24_Witness ==
  /\ pc = "pkgs_done"
  /\ pkgVisited = <<S_python, S_node>>
  /\ pkgResult = <<S_git, S_libatomic1, S_git>>
  /\ DependsOf(S_python) = S_ruby
  /\ S_python \notin userTools

\* ----------------------------------------------- sanitizeTagComponent alone

\* The longest name built from the alphabet.
MaxNameLen == 4

\* Names: every string of up to MaxNameLen characters over a lower-case and
\* an upper-case letter, a digit, a period, two of the separators, a space and
\* a character that is none of these.
TagInputs == SeqsUpTo({"a", "B", "1", ".", "-", "_", " ", "!"}, MaxNameLen)

InitSanitize ==
  /\ imgCfg = DefaultConfig
  /\ agentName = "claude" /\ env = <<>> /\ flag = FALSE
  /\ toolFile = [present |-> FALSE, lines |-> <<>>]
  /\ miseFile = [present |-> FALSE, ok |-> TRUE, tools |-> <<>>]
  /\ disk = <<>>
  /\ collection = Nil /\ imageName = Nil /\ labels = Nil /\ agentMise = Nil
  /\ prev = <<>>
  /\ userTools = {} /\ queue = <<>> /\ seen = {} /\ result = <<>>
  /\ LoaderIdle /\ RecipeIdle /\ SplitIdle /\ OutputIdle /\ RunIdle
  /\ PkgWalkIdle /\ dockerfile = <<>> /\ AliasingIdle
  /\ tagInput \in TagInputs
  /\ tagOutput = <<>>
  /\ pc = "sanitize"

SanitizeTagComponent ==
  /\ pc = "sanitize"
  /\ tagOutput' = sanitizeTagComponent(tagInput)
  /\ pc' = "sanitized"
  /\ UNCHANGED <<inputs, outputs, prev, walk, loader, aptPackages, buildContext, splitter, build,
                 run, pkgWalk, tagInput, dockerfile, aliasing>>

NextSanitize == SanitizeTagComponent

SpecSanitize == InitSanitize /\ [][NextSanitize]_vars

\* A letter, a digit or a period.
IsKept(c) == IsLower(c) \/ IsDigit(c) \/ c = "."

\* s with every maximal run of characters of the set turned into one hyphen.
CollapseRuns(s, set) ==
  LET firstOfRunOrKept == SelectSeq([i \in DOMAIN s |-> i],
                            LAMBDA i : s[i] \notin set \/ i = 1 \/ s[i - 1] \notin set)
  IN [k \in DOMAIN firstOfRunOrKept |->
        IF s[firstOfRunOrKept[k]] \in set THEN "-" ELSE s[firstOfRunOrKept[k]]]

\* The characters of s that are neither kept nor among the separators.
Others(s) == { c \in Range(s) : ~IsKept(c) }

\* What is true of every normalised name.
WellFormedTag(s) ==
  /\ \A i \in DOMAIN s : IsKept(s[i]) \/ s[i] = "-"
  /\ \A i \in DOMAIN s : i > 1 /\ s[i] = "-" => s[i - 1] # "-"
  /\ s # <<>> => s[1] # "-" /\ s[Len(s)] # "-"
  /\ sanitizeTagComponent(s) = s

\* C25 as stated: the input is case-folded, letters, digits and periods are
\* kept, every maximal run of other characters becomes one hyphen, hyphens
\* at the ends are trimmed.
C25_EveryRunBecomesHyphen ==
  pc = "sanitized" =>
    /\ tagOutput = Trim(CollapseRuns(ToLower(tagInput), Others(ToLower(tagInput))), {"-"})
    /\ WellFormedTag(tagOutput)

\* C25: the input is trimmed of white space and case-folded, letters, digits
\* and periods are kept, characters outside the separators + @ : / _ - are
\* deleted, every maximal run of separators in what remains becomes one
\* hyphen and hyphens at the ends are trimmed; the output holds only
\* lower-case letters, digits, periods and single hyphens, and normalising it
\* again returns it.
C25_SeparatorRunsBecomeHyphen ==
  pc = "sanitized" =>
    /\ LET lower == ToLower(TrimSpace(tagInput))
           known == SelectSeq(lower, LAMBDA c : IsKept(c) \/ c \in HyphenChars)
       IN tagOutput = Trim(CollapseRuns(known, HyphenChars), {"-"})
    /\ WellFormedTag(tagOutput)

\* A name with an upper-case letter, a separator, a character that is
\* deleted and a digit.
C25_Witness ==
  /\ pc = "sanitized"
  /\ tagInput = <<"B", "_", "!", "1">>
  /\ tagOutput = <<"b", "-", "1">>

\* ------------------------------------------ mergeConfigs on shared memory

\* The most configuration files merged over the default.
MaxOverlays == 2

\* The element of a backing array beyond the length of its slice.
Spare == [Op |-> "", Value |-> <<>>]

Pad(n) == [i \in 1..n |-> Spare]

\* A slice header: backing array, length, capacity.
SliceOf(arr, elems, cap) == [arr |-> arr, len |-> Len(elems), cap |-> cap]

\* The elements of a slice.
Elems(h, sl) == SubSeq(h[sl.arr], 1, sl.len)

\* A configuration decoded into memory h: its maps and the backing arrays of
\* its lists are new cells; an absent mise.env is a nil map (0); the
\* customization list gets `slack` elements of spare capacity.
Decode(h, c, slack) ==
  LET a == Len(h) IN
  [heap |-> h \o << c.Tools, c.Agents, c.Image.Packages, c.Mise.Install, c.Mise.Env,
                    c.ImageCustomizations.Packages \o Pad(slack) >>,
   cfg |-> [Tools |-> a + 1,
            Agents |-> a + 2,
            Image |-> [Base |-> c.Image.Base,
                       Packages |-> SliceOf(a + 3, c.Image.Packages, Len(c.Image.Packages))],
            Mise |-> [Install |-> SliceOf(a + 4, c.Mise.Install, Len(c.Mise.Install)),
                      Env |-> IF DOMAIN c.Mise.Env = {} THEN 0 ELSE a + 5],
            ImageCustomizations |->
              [Packages |-> SliceOf(a + 6, c.ImageCustomizations.Packages,
                                    Len(c.ImageCustomizations.Packages) + slack)]]]

\* The configuration a reference stands for in memory h.
Deref(h, c) ==
  [Tools |-> h[c.Tools],
   Agents |-> h[c.Agents],
   Image |-> [Base |-> c.Image.Base, Packages |-> Elems(h, c.Image.Packages)],
   Mise |-> [Install |-> Elems(h, c.Mise.Install),
             Env |-> IF c.Mise.Env = 0 THEN <<>> ELSE h[c.Mise.Env]],
   ImageCustomizations |-> [Packages |-> Elems(h, c.ImageCustomizations.Packages)]]

\* append(s, added...): in place when the capacity suffices, else into a new
\* array with `grow` spare elements.
AppendSlice(h, s, added, grow) ==
  IF s.len + Len(added) <= s.cap
    THEN [heap |-> [h EXCEPT ![s.arr] =
                      [i \in DOMAIN h[s.arr] |->
                         IF i > s.len /\ i <= s.len + Len(added) THEN added[i - s.len]
                         ELSE h[s.arr][i]]],
          slice |-> [s EXCEPT !.len = s.len + Len(added)]]
    ELSE [heap |-> Append(h, Elems(h, s) \o added \o Pad(grow)),
          slice |-> [arr |-> Len(h) + 1, len |-> s.len + Len(added),
                     cap |-> s.len + Len(added) + grow]]

\* mergeConfigs on references: the memory after it and the result. Tools and
\* Agents are new maps; Image, Mise and ImageCustomizations are copied from
\* the base as values, so their lists and the mise.env map are those of the
\* base until replaced.
mergeConfigsInMemory(h, base, user, grow) ==
  LET h1 == h \o << MergeMap(h[base.Tools], h[user.Tools]),
                    MergeMap(h[base.Agents], h[user.Agents]) >>
      tools == Len(h) + 1
      agents == Len(h) + 2
      userEnv == IF user.Mise.Env = 0 THEN <<>> ELSE h[user.Mise.Env]
      setsEnv == DOMAIN userEnv # {}
      h2 == IF setsEnv /\ base.Mise.Env = 0 THEN Append(h1, <<>>) ELSE h1
      envRef == IF setsEnv /\ base.Mise.Env = 0 THEN Len(h1) + 1 ELSE base.Mise.Env
      h3 == IF setsEnv THEN [h2 EXCEPT ![envRef] = MergeMap(h2[envRef], userEnv)] ELSE h2
      userOps == Elems(h, user.ImageCustomizations.Packages)
      appended == IF Len(userOps) > 0
                    THEN AppendSlice(h3, base.ImageCustomizations.Packages, userOps, grow)
                    ELSE [heap |-> h3, slice |-> base.ImageCustomizations.Packages]
  IN [heap |-> appended.heap,
      cfg |-> [Tools |-> tools,
               Agents |-> agents,
               Image |-> [Base |-> IF user.Image.Base # "" THEN user.Image.Base
                                   ELSE base.Image.Base,
                          Packages |-> IF user.Image.Packages.len > 0 THEN user.Image.Packages
                                       ELSE base.Image.Packages],
               Mise |-> [Install |-> IF user.Mise.Install.len > 0 THEN user.Mise.Install
                                     ELSE base.Mise.Install,
                         Env |-> envRef],
               ImageCustomizations |-> [Packages |-> appended.slice]]]

\* The files decoded one after the other.
RECURSIVE DecodeAll(_, _, _)
DecodeAll(h, configs, slack) ==
  IF configs = <<>> THEN [heap |-> h, cfgs |-> <<>>]
  ELSE LET first == Decode(h, Head(configs), slack)
           others == DecodeAll(first.heap, Tail(configs), slack)
       IN [heap |-> others.heap, cfgs |-> <<first.cfg>> \o others.cfgs]

\* The default configuration, with or without mise.env, and one to
\* MaxOverlays configuration files are decoded; their customization lists
\* may have spare capacity.
InitAliasing ==
  /\ imgCfg = DefaultConfig
  /\ agentName = "claude" /\ env = <<>> /\ flag = FALSE
  /\ toolFile = [present |-> FALSE, lines |-> <<>>]
  /\ miseFile = [present |-> FALSE, ok |-> TRUE, tools |-> <<>>]
  /\ disk = <<>>
  /\ collection = Nil /\ imageName = Nil /\ labels = Nil /\ agentMise = Nil
  /\ prev = <<>>
  /\ userTools = {} /\ queue = <<>> /\ seen = {} /\ result = <<>>
  /\ LoaderIdle /\ RecipeIdle /\ SplitIdle /\ OutputIdle /\ RunIdle
  /\ PkgWalkIdle /\ SanitizerIdle /\ dockerfile = <<>>
  /\ \E default \in {DefaultLayer, [DefaultLayer EXCEPT !.Mise.Env = <<>>]},
        files \in SeqsUpTo(LayerConfigs, MaxOverlays) \ {<<>>},
        slack \in {0, 1} :
       LET loaded == DecodeAll(<<>>, <<default>> \o files, slack)
       IN /\ heap = loaded.heap
          /\ refs = [base |-> Head(loaded.cfgs), pending |-> Tail(loaded.cfgs), merges |-> <<>>]
  /\ heapBefore = <<>>
  /\ pc = "merge"

AliasingFrame ==
  UNCHANGED <<inputs, outputs, prev, walk, loader, aptPackages, buildContext, splitter, build,
              run, pkgWalk, sanitizer, dockerfile>>

\* base = mergeConfigs(base, file): the memory before the call and the two
\* arguments are remembered.
MergeConfigs ==
  /\ pc = "merge"
  /\ refs.pending # <<>>
  /\ \E grow \in {0, 1} :
       LET merged == mergeConfigsInMemory(heap, refs.base, Head(refs.pending), grow)
       IN /\ heap' = merged.heap
          /\ refs' = [base |-> merged.cfg,
                      pending |-> Tail(refs.pending),
                      merges |-> Append(refs.merges,
                                   [base |-> refs.base, user |-> Head(refs.pending),
                                    result |-> merged.cfg])]
  /\ heapBefore' = Append(heapBefore, heap)
  /\ UNCHANGED pc
  /\ AliasingFrame

\* Every file is merged.
MergeDone ==
  /\ pc = "merge"
  /\ refs.pending = <<>>
  /\ pc' = "merged"
  /\ UNCHANGED aliasing
  /\ AliasingFrame

NextAliasing == MergeConfigs \/ MergeDone

SpecAliasing == InitAliasing /\ [][NextAliasing]_vars

\* C26 as stated: mergeConfigs leaves its arguments unchanged: for every call
\* made so far, the base and the file it was given stand for the
\* configurations they stood for when it was called.
C26_ArgumentsUnchanged ==
  \A k \in DOMAIN refs.merges :
    /\ Deref(heap, refs.merges[k].base) = Deref(heapBefore[k], refs.merges[k].base)
    /\ Deref(heap, refs.merges[k].user) = Deref(heapBefore[k], refs.merges[k].user)

\* What each call returned is the merge of what its arguments stood for.
MergesAsByValue ==
  \A k \in DOMAIN refs.merges :
    LET after == IF k < Len(heapBefore) THEN heapBefore[k + 1] ELSE heap IN
    Deref(after, refs.merges[k].result)
      = mergeConfigs(Deref(heapBefore[k], refs.merges[k].base),
                     Deref(heapBefore[k], refs.merges[k].user))

\* ------------------------------------- the agent manifest and the tool list

\* The descriptors of the collection whose normalised name is that of a key.
ResolvedAs(key) ==
  { i \in DOMAIN collection.specs :
      sanitizeTagComponent(collection.specs[i].name) = sanitizeTagComponent(key) }

\* The manifest was written and has the key.
ManifestHas(key) ==
  /\ pc = "done"
  /\ ~agentMise.err
  /\ key \in DOMAIN agentMise.tools

\* C27: every key of the agent manifest carries the version of the resolved
\* descriptor with the same normalised name, the one the tag and the labels
\* are made from.
C27_ManifestAgreesWithResolved ==
  (pc = "done" /\ ~agentMise.err) =>
    \A key \in DOMAIN agentMise.tools :
      \A i \in ResolvedAs(key) :
        agentMise.tools[key] = collection.specs[i].version

\* ------------------------------------------ removed packages and the recipe

\* v is removed by an operation and no later operation adds it again.
RemovedForGood(v) ==
  \E i \in DOMAIN Operations :
    /\ Operations[i].Op = "remove"
    /\ Operations[i].Value = v
    /\ \A j \in (i + 1)..Len(Operations) :
         ~(Operations[j].Op = "add" /\ Operations[j].Value = v)

\* C30: a package that a remove customization removed, and that no later add
\* restored, is not in the apt package list of the recipe, whatever the agent
\* and its resolved tools ask for.
C30_RemovedPackageNotInstalled ==
  pc = "recipe" =>
    \A v \in {S_curl, S_vim} : RemovedForGood(v) => v \notin Range(aptPackages)

\* ------------------------------------------------- the recipe and its context

\* buildDockerfile, by the parts of the text that depend on its arguments: the
\* base image, the packages of the apt-get line, the commands of the mise
\* installation line (none: no line), the labels, the COPY lines in order,
\* the files of the chown line and the last mise install line. The other
\* lines are the same in every recipe.
buildDockerfile(hasTool, hasMise, coll, c, agent) ==
  [from |-> IF c.Image.Base = "" THEN "debian:12-slim" ELSE c.Image.Base,
   apt |-> RecipePackages(c, agent, coll.userTools),
   install |-> c.Mise.Install,
   labels |-> buildToolLabels(coll.specs),
   copy |-> (IF hasTool THEN <<[src |-> ".tool-versions", dst |-> ".tool-versions"]>>
             ELSE <<>>)
            \o (IF hasMise
                  THEN <<[src |-> "mise.toml", dst |-> "/home/agent/.config/mise/config.toml"]>>
                  ELSE <<>>)
            \o <<[src |-> "mise.agent.toml",
                  dst |-> "/home/agent/.config/mise/mise.agent.toml"],
                 [src |-> "assets/agent-entrypoint.sh",
                  dst |-> "/usr/local/bin/agent-entrypoint"]>>,
   chown |-> (IF hasTool THEN <<".tool-versions">> ELSE <<>>)
             \o (IF hasMise THEN <<"/home/agent/.config/mise/config.toml">> ELSE <<>>)
             \o <<"/home/agent/.config/mise/mise.agent.toml">>,
   run |-> IF hasMise THEN "mise install && mise install --env agent"
           ELSE "mise install --env agent"]

\* Merged configurations after the customizations are applied: the default
\* one, other base images (none set: the default image), a shorter package
\* list, no installation commands for mise.
BuildConfigs ==
  { [DefaultLayer EXCEPT !.Image.Base = b, !.Image.Packages = p, !.Mise.Install = i] :
      b \in {"debian:12-slim", "", "ubuntu:24.04"},
      p \in {DefaultLayer.Image.Packages, <<S_curl, S_git>>},
      i \in {DefaultLayer.Mise.Install, <<>>} }

\* mise.toml files: absent, malformed, one pinned tool, a tools table whose
\* only value is not a string.
BuildMiseFiles ==
  { [present |-> FALSE, ok |-> TRUE, tools |-> <<>>],
    [present |-> TRUE, ok |-> FALSE, tools |-> <<>>],
    [present |-> TRUE, ok |-> TRUE, tools |-> (S_node :> MiseString(S_v16))],
    [present |-> TRUE, ok |-> TRUE, tools |-> (S_python :> MiseTable)] }

\* .tool-versions files: absent, one pinned tool.
BuildToolFiles ==
  { [present |-> FALSE, lines |-> <<>>],
    [present |-> TRUE, lines |-> << <<S_node, S_v18>> >>] }

\* Run up to the call of collectToolSpecs, for one agent.
InitBuild ==
  /\ imgCfg \in BuildConfigs
  /\ agentName = "claude"
  /\ env \in {<<>>, <<S_node \o <<"@">> \o S_v20>>}
  /\ flag = FALSE
  /\ toolFile \in BuildToolFiles
  /\ miseFile \in BuildMiseFiles
  /\ disk \in {<<>>, (".nvmrc" :> S_v21)}
  /\ pc = "collect"
  /\ collection = Nil /\ imageName = Nil /\ labels = Nil /\ agentMise = Nil
  /\ prev = <<>>
  /\ userTools = {} /\ queue = <<>> /\ seen = {} /\ result = <<>>
  /\ RestIdle

\* makeBuildContext: the recipe is rendered, the agent manifest is built and
\* the archive is written, or an error is returned without an archive.
MakeBuildContext ==
  /\ pc = "manifest"
  /\ dockerfile' = buildDockerfile(toolFile.present, miseFile.present, collection,
                                   imgCfg, agentName)
  /\ agentMise' = buildAgentMiseConfig(miseFile, collection, spec)
  /\ buildContext' = makeBuildContext(toolFile, miseFile, collection, spec)
  /\ pc' = "done"
  /\ UNCHANGED <<inputs, collection, imageName, labels, prev, walk, loader, aptPackages,
                 splitter, build, run, pkgWalk, sanitizer, aliasing>>

\* The configuration and the project files are edited and the program is run
\* again; what the first run produced is kept in prev.
RunAfterEdit ==
  /\ pc = "done"
  /\ prev = <<>>
  /\ prev' = <<[imageName |-> imageName, dockerfile |-> dockerfile,
               agentMise |-> agentMise, buildContext |-> buildContext]>>
  /\ imgCfg' \in BuildConfigs
  /\ toolFile' \in BuildToolFiles
  /\ miseFile' \in BuildMiseFiles
  /\ pc' = "collect"
  /\ collection' = Nil /\ imageName' = Nil /\ labels' = Nil /\ agentMise' = Nil
  /\ dockerfile' = <<>>
  /\ buildContext' = [err |-> FALSE, files |-> <<>>]
  /\ UNCHANGED <<agentName, env, flag, disk, walk, loader, aptPackages, splitter, build, run,
                 pkgWalk, sanitizer, aliasing>>

NextBuild == CollectToolSpecs \/ BuildImageName \/ MakeBuildContext \/ RunAfterEdit

SpecBuild == InitBuild /\ [][NextBuild]_vars

\* Both runs of a behaviour got as far as an archive.
TwoBuilds == pc = "done" /\ prev # <<>> /\ ~buildContext.err /\ ~prev[1].buildContext.err

\* C28: the image tag identifies what the image is built from: two runs that
\* compute the same tag render the same recipe and the same agent manifest.
C28_TagIdentifiesContents ==
  (TwoBuilds /\ prev[1].imageName = imageName) =>
    /\ prev[1].dockerfile = dockerfile
    /\ prev[1].agentMise = agentMise

\* The sources of the COPY lines of the recipe.
CopySources == { dockerfile.copy[i].src : i \in DOMAIN dockerfile.copy }

\* C29: when makeBuildContext returns an archive, every source of a COPY line
\* of the recipe is a file of the archive under the same path, whatever
\* manifests the project has, and mise.agent.toml is in both; the sources are
\* .tool-versions and mise.toml exactly when the project has them.
C29_ContextHasEveryCopySource ==
  (pc = "done" /\ ~buildContext.err) =>
    /\ CopySources \subseteq Range(buildContext.files)
    /\ "mise.agent.toml" \in CopySources
    /\ "mise.agent.toml" \in Range(buildContext.files)
    /\ "assets/agent-entrypoint.sh" \in CopySources
    /\ (".tool-versions" \in CopySources <=> toolFile.present)
    /\ ("mise.toml" \in CopySources <=> miseFile.present)

\* A project with both manifests: four COPY lines, all four sources archived.
C29_Witness ==
  /\ pc = "done"
  /\ ~buildContext.err
  /\ toolFile.present /\ miseFile.present
  /\ Len(dockerfile.copy) = 4
  /\ {".tool-versions", "mise.toml"} \subseteq Range(buildContext.files)
=============================================================================
